---- MODULE Spec2Model ----
(***************************************************************************)
(* Model of fastapi_advanced: the msgspec -> Pydantic schema bridge of     *)
(* core.py (registry, lock, thread-local in-flight set) together with the  *)
(* pure-Python type converter and field extractor of _speedups_fallback.py *)
(*                                                                         *)
(* Every Python value of the model is a record with a string field t, so   *)
(* that any two values can be compared.                                    *)
(***************************************************************************)
EXTENDS Integers, Sequences, FiniteSets, TLC

VARIABLES
    registry,     \* _SCHEMA_REGISTRY: struct type -> model class (or None)
    lock,         \* _REGISTRY_LOCK: the thread holding it, or NoThread
    processing,   \* _THREAD_LOCAL.processing, one set per thread
    type_cache,   \* _type_converter._type_cache: type name -> cached result
    heap,         \* the model classes created by create_model, by identity
    stack,        \* per thread: the activations of msgspec_to_pydantic
    outcome,      \* per thread: result of its last completed top-level call
    nalloc,       \* per thread: number of model classes it has created
    calls,        \* number of top-level calls started so far
    built,        \* history: per struct type, completed model constructions
    inserted,     \* history: per struct type, registry insertions
    returned,     \* history: per struct type, the models calls returned
    nested_exc,   \* history, per thread: first error raised by a nested call
    conversion,   \* the last direct call of convert_type: input and result
    pagination,   \* the last call of paginated_response: input and result
    envelope,     \* the last call of response: input and result
    core          \* the import of core.py: its position and what it bound

\* The state of the schema bridge, but for the converter's cache.
bridge == <<registry, lock, processing, heap, stack, outcome, nalloc, calls,
            built, inserted, returned, nested_exc>>

\* The records of the calls of the stateless helpers, and the module's
\* choice of their implementation.
helpers == <<conversion, pagination, envelope, core>>

vars == <<bridge, type_cache, helpers>>

-----------------------------------------------------------------------------
(* Bounds of the model.                                                    *)

\* Top-level calls of msgspec_to_pydantic made in one run, over all threads.
MaxCalls == 3

Threads == {"t1", "t2"}
NoThread == "none"

-----------------------------------------------------------------------------
(* msgspec type descriptors (msgspec.inspect types).  tag is the class     *)
(* name read by type(field_type).__name__; hasattr(d, "x") is              *)
(* "x" \in DOMAIN d.                                                       *)

IntType == [tag |-> "IntType"]
StrType == [tag |-> "StrType"]
NoneType == [tag |-> "NoneType"]
FloatType == [tag |-> "FloatType"]
BoolType == [tag |-> "BoolType"]
BytesType == [tag |-> "BytesType"]
ByteArrayType == [tag |-> "ByteArrayType"]
DateTimeType == [tag |-> "DateTimeType"]
DateType == [tag |-> "DateType"]
TimeType == [tag |-> "TimeType"]
TimeDeltaType == [tag |-> "TimeDeltaType"]
DecimalType == [tag |-> "DecimalType"]
UUIDType == [tag |-> "UUIDType"]
ListType(item) == [tag |-> "ListType", item_type |-> item]
UnionType(members) == [tag |-> "UnionType", types |-> members]
SetType(item) == [tag |-> "SetType", item_type |-> item]
DictType(key, value) ==
    [tag |-> "DictType", key_type |-> key, value_type |-> value]
TupleType(items) == [tag |-> "TupleType", item_types |-> items]
EnumType(cls) == [tag |-> "EnumType", cls |-> cls]
StructType(s) == [tag |-> "StructType", cls |-> s]
\* Annotated[T, msgspec.Meta(...)]; extra is extra_json_schema (or None).
Metadata(inner, extra) ==
    [tag |-> "Metadata", type |-> inner, extra_json_schema |-> extra]
\* Two of the msgspec.inspect classes convert_type has no branch for.
LiteralType == [tag |-> "LiteralType", values |-> <<"a", "b">>]
AnyType == [tag |-> "AnyType"]

hasattr(d, a) == a \in DOMAIN d

\* Faulty variant: the result for a List is stored under its type name too.
SimpleTypesAndList ==
    {"IntType", "StrType", "FloatType", "BoolType", "DateTimeType",
     "DateType", "UUIDType", "TimeType", "TimeDeltaType", "BytesType",
     "ByteArrayType", "DecimalType", "ListType"}

\* The type names of lines 78-91: results stored in the converter's cache.
SimpleTypes ==
    {"IntType", "StrType", "FloatType", "BoolType", "DateTimeType",
     "DateType", "UUIDType", "TimeType", "TimeDeltaType", "BytesType",
     "ByteArrayType", "DecimalType"}

\* Every type name the converter can meet: the recognized ones and one
\* the converter does not know.
TypeNames ==
    SimpleTypes \cup
    {"ListType", "DictType", "SetType", "TupleType", "UnionType",
     "StructType", "EnumType", "NoneType", "Metadata", "LiteralType",
     "AnyType"}

-----------------------------------------------------------------------------
(* Python type annotations, the results of the converter.                  *)

Py(n) == [t |-> n]
PyAny == Py("Any")
PyNoneType == Py("NoneType")
\* list[x], set[x], dict[k, v], tuple[...]: a generic alias with arguments.
Generic(origin, a) == [t |-> origin, args |-> a]
\* A str object used as annotation (the forward reference of core.py line
\* 201).  value is the struct's __name__; the suffix "Schema" is implied.
PyStr(v) == [t |-> "strval", value |-> v]
\* Exceptions.  Exc(k) is a builtin or user exception of class k.
Exc(k) == [t |-> "exc", kind |-> k]
NoExc == [t |-> "noexc"]
\* A raised exception, as the result of an evaluation.
Raised(e) == [t |-> "raise", exc |-> e]
\* No value: the nested call of a field has not been made (or is not needed).
NoRes == [t |-> "nores"]
\* Python's None as a registry lookup result.
None == [t |-> "None"]
NotCached == [t |-> "notcached"]
\* No call of the function has been made yet.
NoCall == [t |-> "nocall"]

IsRaised(v) == v.t = "raise"
IsStr(v) == v.t = "strval"
IsModel(v) == v.t = "model"

UnionArgs(v) == IF v.t = "Union" THEN v.args ELSE <<v>>

RECURSIVE Dedup(_)
Dedup(s) ==
    IF s = <<>> THEN <<>>
    ELSE LET r == Dedup(SubSeq(s, 1, Len(s) - 1))
             x == s[Len(s)]
         IN IF \E i \in 1..Len(r) : r[i] = x THEN r ELSE Append(r, x)

\* a | b on type objects: type.__or__ flattens nested unions and removes
\* duplicates; a str operand supports no "|" and makes it raise TypeError.
PyOr(a, b) ==
    IF IsStr(a) \/ IsStr(b) THEN Raised(Exc("TypeError"))
    ELSE LET m == Dedup(UnionArgs(a) \o UnionArgs(b))
         IN IF Len(m) = 1 THEN m[1] ELSE [t |-> "Union", args |-> m]

RECURSIVE FoldOr(_, _)
\* lines 133-135: result = result | t for each further member
FoldOr(acc, rest) ==
    IF rest = <<>> \/ IsRaised(acc) THEN acc
    ELSE FoldOr(PyOr(acc, Head(rest)), Tail(rest))

-----------------------------------------------------------------------------
(* TypeConverter (_speedups_fallback.py).  An evaluation returns the value *)
(* (or the exception raised) and the cache it leaves.  res is what the     *)
(* call msgspec_to_pydantic(field_type.cls) of _convert_struct_type        *)
(* returned; that call is made by the activation machinery below.  The     *)
(* _convert_* methods receive the conversions of their components, which   *)
(* are evaluated only where the method's code calls self.convert_type.     *)

Ret(v, c) == [val |-> v, cache |-> c]

\* lines 95-100; item is self.convert_type(field_type.item_type)
_convert_list_type(field_type, cache, item) ==
    IF hasattr(field_type, "item_type")
    THEN IF IsRaised(item.val) THEN item
         ELSE Ret(Generic("list", <<item.val>>), item.cache)
    ELSE Ret(Py("list"), cache)

\* Faulty variant: key and value change places.
_convert_dict_type_swapped(field_type, cache, key, value) ==
    IF hasattr(field_type, "key_type") /\ hasattr(field_type, "value_type")
    THEN IF IsRaised(key.val) THEN key
         ELSE IF IsRaised(value.val) THEN value
         ELSE Ret(Generic("dict", <<value.val, key.val>>), value.cache)
    ELSE Ret(Py("dict"), cache)

\* lines 102-108; key and value are the conversions of key_type, value_type
_convert_dict_type(field_type, cache, key, value) ==
    IF hasattr(field_type, "key_type") /\ hasattr(field_type, "value_type")
    THEN IF IsRaised(key.val) THEN key
         ELSE IF IsRaised(value.val) THEN value
         ELSE Ret(Generic("dict", <<key.val, value.val>>), value.cache)
    ELSE Ret(Py("dict"), cache)

\* lines 110-115
_convert_set_type(field_type, cache, item) ==
    IF hasattr(field_type, "item_type")
    THEN IF IsRaised(item.val) THEN item
         ELSE Ret(Generic("set", <<item.val>>), item.cache)
    ELSE Ret(Py("set"), cache)

\* lines 117-122; items is [self.convert_type(t) for t in item_types]
_convert_tuple_type(field_type, cache, items) ==
    IF hasattr(field_type, "item_types")
    THEN IF IsRaised(items.exc) THEN Ret(items.exc, items.cache)
         ELSE Ret(Generic("tuple", items.vals), items.cache)
    ELSE Ret(Py("tuple"), cache)

\* lines 124-137; members is [self.convert_type(t) for t in types]
_convert_union_type(field_type, cache, members) ==
    IF hasattr(field_type, "types")
    THEN LET types == members.vals
             non_none == SelectSeq(types, LAMBDA x : x # PyNoneType)
         IN IF IsRaised(members.exc) THEN Ret(members.exc, members.cache)
            ELSE IF Len(types) = 2
                    /\ \E i \in 1..Len(types) : types[i] = PyNoneType
            THEN IF non_none = <<>>
                 THEN Ret(Raised(Exc("IndexError")), members.cache)
                 ELSE Ret(PyOr(non_none[1], PyNoneType), members.cache)
            ELSE IF types = <<>>
                 THEN Ret(Raised(Exc("IndexError")), members.cache)
            ELSE Ret(FoldOr(types[1], Tail(types)), members.cache)
    ELSE Ret(PyAny, cache)

\* lines 139-145; res is what msgspec_to_pydantic(field_type.cls) returned
_convert_struct_type(field_type, cache, res) == Ret(res, cache)

\* lines 147-151
_convert_enum_type(field_type, cache) ==
    IF hasattr(field_type, "cls")
    THEN Ret([t |-> "enum", cls |-> field_type.cls], cache)
    ELSE Ret(PyAny, cache)

\* lines 153-157; inner is self.convert_type(field_type.type)
_convert_metadata_type(field_type, cache, inner) ==
    IF hasattr(field_type, "type") THEN inner ELSE Ret(PyAny, cache)

\* The element of a singleton.  Value({e(x) : x \in {v}}) is e with x a local
\* variable holding v: v is evaluated once, as the code evaluates it.
Value(S) == CHOOSE y \in S : TRUE

RECURSIVE convert_type(_, _, _)
RECURSIVE convert_each(_, _, _)

\* [self.convert_type(t) for t in ts]: left to right, stopping at a raise.
convert_each(ts, res, cache) ==
    IF ts = <<>> THEN [vals |-> <<>>, cache |-> cache, exc |-> NoRes]
    ELSE Value({
           IF IsRaised(h.val)
           THEN [vals |-> <<>>, cache |-> h.cache, exc |-> h.val]
           ELSE Value({[vals |-> <<h.val>> \o r.vals, cache |-> r.cache,
                        exc |-> r.exc] :
                         r \in {convert_each(Tail(ts), res, h.cache)}}) :
             h \in {convert_type(Head(ts), res, cache)}})

\* lines 15-93
convert_type(field_type, res, cache) ==
    LET type_name == field_type.tag IN
    IF cache[type_name] # NotCached THEN Ret(cache[type_name], cache)
    ELSE
      LET result ==
            CASE type_name = "IntType" -> Ret(Py("int"), cache)
              [] type_name = "StrType" -> Ret(Py("str"), cache)
              [] type_name = "FloatType" -> Ret(Py("float"), cache)
              [] type_name = "BoolType" -> Ret(Py("bool"), cache)
              [] type_name = "ListType" ->
                    _convert_list_type(field_type, cache,
                        convert_type(field_type.item_type, res, cache))
              [] type_name = "DictType" ->
                    LET key == convert_type(field_type.key_type, res, cache)
                    IN _convert_dict_type(field_type, cache, key,
                          convert_type(field_type.value_type, res, key.cache))
              [] type_name = "SetType" ->
                    _convert_set_type(field_type, cache,
                        convert_type(field_type.item_type, res, cache))
              [] type_name = "TupleType" ->
                    _convert_tuple_type(field_type, cache,
                        convert_each(field_type.item_types, res, cache))
              [] type_name = "UnionType" ->
                    Value({_convert_union_type(field_type, cache, members) :
                       members \in
                         {convert_each(field_type.types, res, cache)}})
              [] type_name = "StructType" ->
                    _convert_struct_type(field_type, cache, res)
              [] type_name = "EnumType" ->
                    _convert_enum_type(field_type, cache)
              [] type_name = "NoneType" -> Ret(PyNoneType, cache)
              [] type_name = "Metadata" ->
                    _convert_metadata_type(field_type, cache,
                        convert_type(field_type.type, res, cache))
              [] type_name = "DateTimeType" -> Ret(Py("datetime"), cache)
              [] type_name = "DateType" -> Ret(Py("date"), cache)
              [] type_name = "UUIDType" -> Ret(Py("UUID"), cache)
              [] type_name = "TimeType" -> Ret(Py("time"), cache)
              [] type_name = "TimeDeltaType" -> Ret(Py("timedelta"), cache)
              [] type_name = "BytesType" -> Ret(Py("bytes"), cache)
              [] type_name = "ByteArrayType" -> Ret(Py("bytearray"), cache)
              [] type_name = "DecimalType" -> Ret(Py("Decimal"), cache)
              [] OTHER -> Ret(PyAny, cache)
      IN IF type_name \in SimpleTypes /\ ~IsRaised(result.val)
         THEN Ret(result.val,
                  [result.cache EXCEPT ![type_name] = result.val])
         ELSE result

-----------------------------------------------------------------------------
(* The struct types given to the bridge.  A struct type is known by its    *)
(* identity (the element of Structs); __name__ and the fields are what     *)
(* msgspec.inspect.type_info reports.  Each field type holds at most one   *)
(* StructType, as its leftmost leaf, so that the nested call is the first  *)
(* thing the conversion of the field does.                                 *)

NODEFAULT == [t |-> "NODEFAULT"]
Ellipsis == [t |-> "Ellipsis"]
PyValue(v) == [t |-> "value", v |-> v]
\* A default_factory: calling it yields a value or raises.
Factory(y) == [t |-> "factory", yields |-> y]

Field(n, e, ty, d, f) ==
    [name |-> n, encode_name |-> e, type |-> ty, default |-> d,
     default_factory |-> f]

\* The struct types top-level calls are made for, in two programs.
BridgeStructs == {"U1", "U2", "Node", "A", "B", "Outer", "Bad"}
CycleStructs == {"Dept", "Employee"}

Structs == BridgeStructs \cup CycleStructs

\* class User(Struct, rename="camel"):
\*     role: Literal["a", "b"]
\*     full_name: str | None = None
\*     friends: list[User] = field(default_factory=list)
\* declared twice (U1, U2), in two modules.
UserFields(self) ==
    << Field("role", "role", LiteralType, NODEFAULT, NODEFAULT),
       Field("full_name", "fullName", UnionType(<<StrType, NoneType>>),
             None, NODEFAULT),
       Field("friends", "friends", ListType(StructType(self)),
             NODEFAULT, Factory(PyValue("[]"))) >>

StructDef(s) ==
    CASE s = "U1" -> [name |-> "User", fields |-> UserFields("U1")]
      [] s = "U2" -> [name |-> "User", fields |-> UserFields("U2")]
      \* class Node(Struct): value: int; next: Node | None = None
      [] s = "Node" ->
           [name |-> "Node",
            fields |->
              << Field("value", "value", IntType, NODEFAULT, NODEFAULT),
                 Field("next", "next",
                       UnionType(<<StructType("Node"), NoneType>>),
                       None, NODEFAULT) >>]
      \* class A(Struct): b: B          class B(Struct): a: A | None = None
      [] s = "A" ->
           [name |-> "A",
            fields |->
              << Field("b", "b", StructType("B"), NODEFAULT, NODEFAULT) >>]
      [] s = "B" ->
           [name |-> "B",
            fields |->
              << Field("a", "a", UnionType(<<StructType("A"), NoneType>>),
                       None, NODEFAULT) >>]
      \* class Outer(Struct): inner: Bad
      [] s = "Outer" ->
           [name |-> "Outer",
            fields |->
              << Field("inner", "inner", StructType("Bad"),
                       NODEFAULT, NODEFAULT) >>]
      \* class Bad(Struct): stamp: int = field(default_factory=f), f raises
      [] s = "Bad" ->
           [name |-> "Bad",
            fields |->
              << Field("stamp", "stamp", IntType, NODEFAULT,
                       Factory(Raised(Exc("FactoryError")))) >>]
      \* class Dept(Struct): head: Employee; parent: Dept | None = None
      [] s = "Dept" ->
           [name |-> "Dept",
            fields |->
              << Field("head", "head", StructType("Employee"),
                       NODEFAULT, NODEFAULT),
                 Field("parent", "parent",
                       UnionType(<<StructType("Dept"), NoneType>>),
                       None, NODEFAULT) >>]
      \* class Employee(Struct): dept: Dept
      [] s = "Employee" ->
           [name |-> "Employee",
            fields |->
              << Field("dept", "dept", StructType("Dept"),
                       NODEFAULT, NODEFAULT) >>]

RECURSIVE StructRefs(_)
\* The struct types a descriptor refers to.
StructRefs(d) ==
    CASE d.tag = "StructType" -> {d.cls}
      [] d.tag \in {"ListType", "SetType"} /\ hasattr(d, "item_type") ->
           StructRefs(d.item_type)
      [] d.tag = "DictType" /\ hasattr(d, "key_type")
                            /\ hasattr(d, "value_type") ->
           StructRefs(d.key_type) \cup StructRefs(d.value_type)
      [] d.tag = "TupleType" /\ hasattr(d, "item_types") ->
           UNION {StructRefs(d.item_types[i]) : i \in DOMAIN d.item_types}
      [] d.tag = "UnionType" /\ hasattr(d, "types") ->
           UNION {StructRefs(d.types[i]) : i \in DOMAIN d.types}
      [] d.tag = "Metadata" /\ hasattr(d, "type") -> StructRefs(d.type)
      [] OTHER -> {}

-----------------------------------------------------------------------------
(* exceptions.py                                                           *)

TypeConversionError(field_type, original_error) ==
    [t |-> "exc", kind |-> "TypeConversionError", field_type |-> field_type,
     original_error |-> original_error]

SchemaGenerationError(struct_name, original_error) ==
    [t |-> "exc", kind |-> "SchemaGenerationError",
     struct_name |-> struct_name, original_error |-> original_error]

-----------------------------------------------------------------------------
(* core.py: the bridge.                                                    *)

\* Faulty variant: the converter's exception is let through as it is.
_msgspec_type_to_python_type_unwrapped(field_type, res, cache) ==
    convert_type(field_type, res, cache)

\* Faulty variant: a type name without a branch in convert_type is an error.
_msgspec_type_to_python_type_strict(field_type, res, cache) ==
    IF field_type.tag \in {"LiteralType", "AnyType"}
    THEN Ret(Raised(TypeConversionError(field_type, Exc("ValueError"))),
             cache)
    ELSE Value({IF IsRaised(r.val)
                THEN Ret(Raised(TypeConversionError(field_type, r.val.exc)),
                         r.cache)
                ELSE r :
                  r \in {convert_type(field_type, res, cache)}})

\* try: return _convert_type_impl(field_type)
\* except Exception as e: raise TypeConversionError(field_type, e) from e
_msgspec_type_to_python_type(field_type, res, cache) ==
    Value({IF IsRaised(r.val)
           THEN Ret(Raised(TypeConversionError(field_type, r.val.exc)),
                    r.cache)
           ELSE r :
             r \in {convert_type(field_type, res, cache)}})

\* The metadata dict of process_struct_fields_fast (lines 215-224).
FieldMetadata(field_type) ==
    IF field_type.tag = "Metadata"
       /\ hasattr(field_type, "extra_json_schema")
       /\ DOMAIN field_type.extra_json_schema # {"t"}
    THEN [k \in DOMAIN field_type.extra_json_schema
               \cap {"t", "description", "examples"} |->
            field_type.extra_json_schema[k]]
    ELSE None

\* Faulty variant: a default is looked for by truth value, so that the
\* explicit default None counts as no default.
ProcessFieldTruthy(field, res, cache) ==
    LET default_value ==
            IF field.default # NODEFAULT /\ field.default # None
            THEN field.default
            ELSE IF field.default_factory # NODEFAULT
                 THEN field.default_factory.yields
                 ELSE Ellipsis
        invoked ==
            IF field.default # NODEFAULT /\ field.default # None THEN 0
            ELSE IF field.default_factory # NODEFAULT THEN 1 ELSE 0
    IN Value({
         IF IsRaised(c.val) THEN c
         ELSE IF IsRaised(default_value) THEN Ret(default_value, c.cache)
         ELSE Ret([t |-> "rawdef", name |-> field.name,
                   python_type |-> c.val, default_value |-> default_value,
                   metadata |-> FieldMetadata(field.type),
                   invoked |-> invoked], c.cache) :
           c \in {_msgspec_type_to_python_type(field.type, res, cache)}})

\* One iteration of the loop of process_struct_fields_fast (lines 205-226):
\* the raw definition (python_type, default_value, metadata) of the field,
\* or the exception the iteration raises; and the converter cache it leaves.
ProcessField(field, res, cache) ==
    LET default_value ==
            IF field.default # NODEFAULT THEN field.default
            ELSE IF field.default_factory # NODEFAULT
                 THEN field.default_factory.yields
                 ELSE Ellipsis
        \* how many times the iteration calls field.default_factory()
        invoked ==
            IF field.default # NODEFAULT THEN 0
            ELSE IF field.default_factory # NODEFAULT THEN 1 ELSE 0
    IN Value({
         IF IsRaised(c.val) THEN c
         ELSE IF IsRaised(default_value) THEN Ret(default_value, c.cache)
         ELSE Ret([t |-> "rawdef", name |-> field.name,
                   python_type |-> c.val, default_value |-> default_value,
                   metadata |-> FieldMetadata(field.type),
                   invoked |-> invoked], c.cache) :
           c \in {_msgspec_type_to_python_type(field.type, res, cache)}})

\* lines 217-224: does any field have an encode_name unlike its name?
UsesCamelCase(fields) ==
    \E i \in DOMAIN fields : fields[i].encode_name # fields[i].name

\* Faulty variant: in a renamed struct every field is given an alias.
FieldKwargsAliasAll(field, metadata, uses_camel_case) ==
    LET keys ==
          (IF metadata # None
           THEN DOMAIN metadata \cap {"description", "examples"} ELSE {})
          \cup
          (IF uses_camel_case THEN {"alias"} ELSE {})
    IN [k \in keys \cup {"t"} |->
          IF k = "t" THEN "dict"
          ELSE IF k = "alias" THEN field.encode_name ELSE metadata[k]]

\* lines 232-244: the keyword arguments of Field() for one field.
FieldKwargs(field, metadata, uses_camel_case) ==
    LET keys ==
          (IF metadata # None
           THEN DOMAIN metadata \cap {"description", "examples"} ELSE {})
          \cup
          (IF uses_camel_case /\ field.encode_name # field.name
           THEN {"alias"} ELSE {})
    IN [k \in keys \cup {"t"} |->
          IF k = "t" THEN "dict"
          ELSE IF k = "alias" THEN field.encode_name ELSE metadata[k]]

\* Faulty variant: the properties are in reverse order of the fields.
CreateModelClassReversed(ref, s, raw) ==
    LET fields == StructDef(s).fields
        uses_camel_case == UsesCamelCase(fields)
        n == Len(fields)
    IN [t |-> "class", ref |-> ref, name |-> StructDef(s).name,
        populate_by_name |-> uses_camel_case,
        fields |->
          [i \in DOMAIN fields |->
             [name |-> fields[n + 1 - i].name,
              python_type |-> raw[n + 1 - i].python_type,
              default_value |-> raw[n + 1 - i].default_value,
              field_kwargs |->
                FieldKwargs(fields[n + 1 - i], raw[n + 1 - i].metadata,
                            uses_camel_case)]],
        msgspec_struct |-> "unset"]

\* Faulty variant: the class lacks the last field of the struct.
CreateModelClassDropsField(ref, s, raw) ==
    [t |-> "class", ref |-> ref, name |-> StructDef(s).name,
     populate_by_name |-> UsesCamelCase(StructDef(s).fields),
     fields |->
       [i \in 1..(Len(raw) - 1) |->
          [name |-> StructDef(s).fields[i].name,
           python_type |-> raw[i].python_type,
           default_value |-> raw[i].default_value,
           field_kwargs |->
             FieldKwargs(StructDef(s).fields[i], raw[i].metadata,
                         UsesCamelCase(StructDef(s).fields))]],
     msgspec_struct |-> "unset"]

\* lines 226-279: the class create_model returns for struct type s, given
\* the raw field definitions; __msgspec_struct__ is not yet attached.
CreateModelClass(ref, s, raw) ==
    LET fields == StructDef(s).fields
        uses_camel_case == UsesCamelCase(fields)
    IN [t |-> "class", ref |-> ref, name |-> StructDef(s).name,
        populate_by_name |-> uses_camel_case,
        fields |->
          [i \in DOMAIN fields |->
             [name |-> fields[i].name,
              python_type |-> raw[i].python_type,
              default_value |-> raw[i].default_value,
              field_kwargs |->
                FieldKwargs(fields[i], raw[i].metadata, uses_camel_case)]],
        msgspec_struct |-> "unset"]

ModelRef(th, n) == [t |-> "model", by |-> th, n |-> n]

\* The class object a model reference denotes.
Deref(h, ref) == CHOOSE o \in h : o.ref = ref

\* Faulty variant: the registry keyed by the struct's __name__.
RegistryGetByName(reg, struct_cls) ==
    LET same == {s \in Structs :
                   StructDef(s).name = StructDef(struct_cls).name
                   /\ reg[s] # None}
    IN IF same = {} THEN None ELSE reg[CHOOSE s \in same : TRUE]

\* _SCHEMA_REGISTRY.get(struct_cls): the registry is keyed by the struct
\* class object itself.
RegistryGet(reg, struct_cls) == reg[struct_cls]

\* Faulty variant: the lock-free read never finds anything.
CachedLookupMiss(reg, struct_cls) == None

\* line 193: cached = _SCHEMA_REGISTRY.get(struct_cls), without the lock
CachedLookup(reg, struct_cls) == RegistryGet(reg, struct_cls)

\* Faulty variant: no re-check under the lock.
ExistingLookupSkipped(reg, struct_cls) == None

\* line 287: existing = _SCHEMA_REGISTRY.get(struct_cls), holding the lock
ExistingLookup(reg, struct_cls) == RegistryGet(reg, struct_cls)

\* Faulty variant: one in-flight set shared by all threads.
_get_processing_set_shared(proc, th) == UNION {proc[u] : u \in Threads}

\* Faulty variant: nothing is ever seen in flight.
_get_processing_set_empty(proc, th) == {}

\* _get_processing_set(): the set of the calling thread.
_get_processing_set(proc, th) == proc[th]

\* An activation of msgspec_to_pydantic(struct_cls).  pc is the place the
\* activation is at:
\*   "start"    line 193, before the registry read
\*   "fields"   line 211, in the loop of process_struct_fields_fast
\*   "attach"   line 282, the class is created
\*   "lock"     line 285, waiting for _REGISTRY_LOCK
\*   "recheck"  line 287, holding the lock
\*   "insert"   line 290, holding the lock
\*   "raising"  an exception is leaving the try block (lines 297-305)
Frame(s) ==
    [struct |-> s, pc |-> "start", idx |-> 1, raw |-> <<>>, res |-> NoRes,
     model |-> None, exc |-> NoExc]

NoOutcome == [struct |-> "", val |-> NoRes, path |-> "none", own |-> None]

Top(th) == stack[th][Len(stack[th])]
Busy(th) == stack[th] # <<>>
At(th, pc) == Busy(th) /\ Top(th).pc = pc
Caller(stk) == SubSeq(stk, 1, Len(stk) - 1)

\* The stack after its top activation returned v to its caller: the caller
\* is inside _convert_struct_type and goes on with the value.
ReturnTo(stk, v) ==
    LET rest == Caller(stk)
    IN IF rest = <<>> THEN rest
       ELSE [rest EXCEPT ![Len(rest)].res = v]

\* The stack after its top activation raised e: in the caller the exception
\* leaves _convert_type_impl and is wrapped by _msgspec_type_to_python_type
\* (line 165); the wrapped error leaves the caller's try block in turn.
RaiseTo(stk, e) ==
    LET rest == Caller(stk)
    IN IF rest = <<>> THEN rest
       ELSE LET c == rest[Len(rest)]
                ft == StructDef(c.struct).fields[c.idx].type
            IN [rest EXCEPT ![Len(rest)].pc = "raising",
                            ![Len(rest)].exc = TypeConversionError(ft, e)]

\* What a top-level call leaves for its caller.
Finish(th, s, v, path, own) ==
    IF Len(stack[th]) = 1
    THEN outcome' = [outcome EXCEPT ![th] =
                       [struct |-> s, val |-> v, path |-> path, own |-> own]]
    ELSE UNCHANGED outcome

-----------------------------------------------------------------------------
(* The choice of the implementation at import (core.py lines 24-48).       *)

\* The import statements of fastapi_advanced.core executed in one run.
MaxImports == 2

\* The accelerated entry points in the order the import statements bind
\* them: the attribute imported and the name it is bound to in core.
EntryPoints ==
    << [attr |-> "convert_msgspec_type_fast", name |-> "_convert_type_impl"],
       [attr |-> "create_paginated_dict_fast",
        name |-> "create_paginated_dict_fast"],
       [attr |-> "create_response_dict_fast",
        name |-> "create_response_dict_fast"],
       [attr |-> "process_struct_fields_fast",
        name |-> "process_struct_fields_fast"] >>

EntryNames == {EntryPoints[i].name : i \in DOMAIN EntryPoints}
EntryAttrs == {EntryPoints[i].attr : i \in DOMAIN EntryPoints}

\* What fastapi_advanced._speedups, the optional extension module, is in
\* an installation: not built, built but impossible to load (both raise
\* ImportError), or a module with some of the attributes.
SpeedupsModules ==
    {[t |-> "absent"], [t |-> "unloadable"]}
      \cup {[t |-> "module", attrs |-> S] : S \in SUBSET EntryAttrs}

\* The module before its first import: nothing bound.
Unimported(speedups) ==
    [pc |-> "start", speedups |-> speedups, idx |-> 1,
     bound |-> [n \in EntryNames |-> "unbound"],
     _CYTHON_AVAILABLE |-> "unbound", imports |-> 0]

\* The module as imported where the extension is not built: the state of
\* the bridge and of the helpers modelled in the other sections.
Imported ==
    [pc |-> "done", speedups |-> [t |-> "absent"], idx |-> 4,
     bound |-> [n \in EntryNames |-> "fallback"],
     _CYTHON_AVAILABLE |-> "False", imports |-> 1]

\* import fastapi_advanced.core: the first one runs the module's body, a
\* later one finds the module in sys.modules.
ImportCore ==
    /\ core.pc \in {"start", "done"}
    /\ core.imports < MaxImports
    /\ core' = [core EXCEPT !.imports = @ + 1,
                            !.pc = IF @ = "start" THEN "try" ELSE @]
    /\ UNCHANGED <<bridge, type_cache, conversion, pagination, envelope>>

\* Lines 26 and 29: the extension module is loaded, or ImportError raised.
LoadSpeedups ==
    /\ core.pc = "try"
    /\ core' = [core EXCEPT !.pc = IF core.speedups.t = "module"
                                   THEN "native" ELSE "except"]
    /\ UNCHANGED <<bridge, type_cache, conversion, pagination, envelope>>

\* Lines 26-33: the next name is bound to the extension's attribute, or
\* ImportError is raised because the extension has no such attribute.
BindNative ==
    /\ core.pc = "native"
    /\ LET e == EntryPoints[core.idx]
       IN core' =
            IF e.attr \in core.speedups.attrs
            THEN [core EXCEPT !.bound[e.name] = "native",
                              !.idx = IF @ = Len(EntryPoints) THEN @ ELSE @ + 1,
                              !.pc = IF core.idx = Len(EntryPoints)
                                     THEN "available" ELSE @]
            ELSE [core EXCEPT !.pc = "except", !.idx = 1]
    /\ UNCHANGED <<bridge, type_cache, conversion, pagination, envelope>>

\* Line 35: _CYTHON_AVAILABLE = True
SetAvailable ==
    /\ core.pc = "available"
    /\ core' = [core EXCEPT !._CYTHON_AVAILABLE = "True", !.pc = "done"]
    /\ UNCHANGED <<bridge, type_cache, conversion, pagination, envelope>>

\* Faulty variant: the handler binds only the names left unbound.
BindFallbackIfUnbound ==
    /\ core.pc = "except"
    /\ LET e == EntryPoints[core.idx]
       IN core' =
            [core EXCEPT !.bound[e.name] =
                             IF @ = "unbound" THEN "fallback" ELSE @,
                         !.idx = IF @ = Len(EntryPoints) THEN @ ELSE @ + 1,
                         !.pc = IF core.idx = Len(EntryPoints)
                                THEN "unavailable" ELSE @]
    /\ UNCHANGED <<bridge, type_cache, conversion, pagination, envelope>>

\* Lines 37-46, the handler of ImportError: the next name is bound to the
\* attribute of _speedups_fallback.
BindFallback ==
    /\ core.pc = "except"
    /\ LET e == EntryPoints[core.idx]
       IN core' =
            [core EXCEPT !.bound[e.name] = "fallback",
                         !.idx = IF @ = Len(EntryPoints) THEN @ ELSE @ + 1,
                         !.pc = IF core.idx = Len(EntryPoints)
                                THEN "unavailable" ELSE @]
    /\ UNCHANGED <<bridge, type_cache, conversion, pagination, envelope>>

\* Line 48: _CYTHON_AVAILABLE = False
SetUnavailable ==
    /\ core.pc = "unavailable"
    /\ core' = [core EXCEPT !._CYTHON_AVAILABLE = "False", !.pc = "done"]
    /\ UNCHANGED <<bridge, type_cache, conversion, pagination, envelope>>

ImportNext ==
    \/ ImportCore \/ LoadSpeedups \/ BindNative \/ SetAvailable
    \/ BindFallback \/ SetUnavailable

-----------------------------------------------------------------------------

InitBridge ==
    /\ registry = [s \in Structs |-> None]
    /\ lock = NoThread
    /\ processing = [th \in Threads |-> {}]
    /\ type_cache = [n \in TypeNames |-> NotCached]
    /\ heap = {}
    /\ stack = [th \in Threads |-> <<>>]
    /\ outcome = [th \in Threads |-> NoOutcome]
    /\ nalloc = [th \in Threads |-> 0]
    /\ calls = 0
    /\ built = [s \in Structs |-> 0]
    /\ inserted = [s \in Structs |-> 0]
    /\ returned = [s \in Structs |-> {}]
    /\ nested_exc = [th \in Threads |-> NoExc]

Init ==
    /\ InitBridge
    /\ conversion = NoCall
    /\ pagination = NoCall
    /\ envelope = NoCall
    /\ core = Imported

\* A program that has not imported fastapi_advanced.core yet, in an
\* installation with some extension module, or none.
ImportInit ==
    /\ InitBridge
    /\ conversion = NoCall
    /\ pagination = NoCall
    /\ envelope = NoCall
    /\ core \in {Unimported(sp) : sp \in SpeedupsModules}

ImportSpec == ImportInit /\ [][ImportNext]_vars

\* A thread with no call in progress calls msgspec_to_pydantic(s)
\* (as_body, or user code).
Call(th, s) ==
    /\ ~Busy(th)
    /\ calls < MaxCalls
    /\ calls' = calls + 1
    /\ stack' = [stack EXCEPT ![th] = <<Frame(s)>>]
    /\ outcome' = [outcome EXCEPT ![th] = NoOutcome]
    /\ nested_exc' = [nested_exc EXCEPT ![th] = NoExc]
    /\ UNCHANGED helpers
    /\ UNCHANGED <<registry, lock, processing, type_cache, heap, nalloc,
                   built, inserted, returned>>

\* lines 193-195: the lock-free read finds the model.
FastPathHit(th) ==
    /\ At(th, "start")
    /\ LET s == Top(th).struct
           cached == CachedLookup(registry, s)
       IN /\ cached # None
          /\ stack' = [stack EXCEPT ![th] = ReturnTo(@, cached)]
          /\ returned' = [returned EXCEPT ![s] = @ \cup {cached}]
          /\ Finish(th, s, cached, "hit", None)
    /\ UNCHANGED helpers
    /\ UNCHANGED <<registry, lock, processing, type_cache, heap, nalloc,
                   calls, built, inserted, nested_exc>>

\* Faulty variant: the in-flight check made before the registry read.
ForwardRefFirst(th) ==
    /\ At(th, "start")
    /\ LET s == Top(th).struct
           v == PyStr(StructDef(s).name)
       IN /\ s \in _get_processing_set(processing, th)
          /\ stack' = [stack EXCEPT ![th] = ReturnTo(@, v)]
          /\ Finish(th, s, v, "forward", None)
    /\ UNCHANGED helpers
    /\ UNCHANGED <<registry, lock, processing, type_cache, heap, nalloc,
                   calls, built, inserted, returned, nested_exc>>

\* Faulty variant: the in-flight check made inside the try block, so that
\* the finally clause unmarks the struct type on this path too.
ForwardRefUnmarks(th) ==
    /\ At(th, "start")
    /\ LET s == Top(th).struct
           v == PyStr(StructDef(s).name)
       IN /\ CachedLookup(registry, s) = None
          /\ s \in _get_processing_set(processing, th)
          /\ processing' = [processing EXCEPT ![th] = @ \ {s}]
          /\ stack' = [stack EXCEPT ![th] = ReturnTo(@, v)]
          /\ Finish(th, s, v, "forward", None)
    /\ UNCHANGED helpers
    /\ UNCHANGED <<registry, lock, type_cache, heap, nalloc,
                   calls, built, inserted, returned, nested_exc>>

\* lines 193-201: a miss, and the struct type is in the thread's in-flight
\* set: the forward reference string is returned.
ForwardRef(th) ==
    /\ At(th, "start")
    /\ LET s == Top(th).struct
           v == PyStr(StructDef(s).name)
       IN /\ CachedLookup(registry, s) = None
          /\ s \in _get_processing_set(processing, th)
          /\ stack' = [stack EXCEPT ![th] = ReturnTo(@, v)]
          /\ Finish(th, s, v, "forward", None)
    /\ UNCHANGED helpers
    /\ UNCHANGED <<registry, lock, processing, type_cache, heap, nalloc,
                   calls, built, inserted, returned, nested_exc>>

\* Faulty variant: the lock is taken for the whole build.
BeginBuildLocked(th) ==
    /\ At(th, "start")
    /\ lock = NoThread
    /\ LET s == Top(th).struct
       IN /\ CachedLookup(registry, s) = None
          /\ s \notin _get_processing_set(processing, th)
          /\ lock' = th
          /\ processing' = [processing EXCEPT ![th] = @ \cup {s}]
          /\ stack' = [stack EXCEPT ![th][Len(stack[th])].pc = "fields"]
    /\ UNCHANGED helpers
    /\ UNCHANGED <<registry, type_cache, heap, outcome, nalloc, calls,
                   built, inserted, returned, nested_exc>>

\* lines 193-204: a miss, not in flight: the struct type is marked and the
\* build begins.
BeginBuild(th) ==
    /\ At(th, "start")
    /\ LET s == Top(th).struct
       IN /\ CachedLookup(registry, s) = None
          /\ s \notin _get_processing_set(processing, th)
          /\ processing' = [processing EXCEPT ![th] = @ \cup {s}]
          /\ stack' = [stack EXCEPT ![th][Len(stack[th])].pc = "fields"]
    /\ UNCHANGED helpers
    /\ UNCHANGED <<registry, lock, type_cache, heap, outcome, nalloc, calls,
                   built, inserted, returned, nested_exc>>

\* The conversion of the current field reaches _convert_struct_type, which
\* calls msgspec_to_pydantic(field_type.cls) (fallback line 145).
NestedCall(th) ==
    /\ At(th, "fields")
    /\ LET f == Top(th)
           fields == StructDef(f.struct).fields
       IN /\ f.idx <= Len(fields)
          /\ f.res = NoRes
          /\ StructRefs(fields[f.idx].type) # {}
          /\ \E r \in StructRefs(fields[f.idx].type) :
                stack' = [stack EXCEPT ![th] = Append(@, Frame(r))]
    /\ UNCHANGED helpers
    /\ UNCHANGED <<registry, lock, processing, type_cache, heap, outcome,
                   nalloc, calls, built, inserted, returned, nested_exc>>

\* One iteration of the loop of process_struct_fields_fast: the field's
\* type is converted (with the nested call's value, if there was one), its
\* default is determined, and the raw definition is stored; or the
\* iteration raises, and the exception reaches the handlers of
\* msgspec_to_pydantic (lines 297-302).
ConvertField(th) ==
    /\ At(th, "fields")
    /\ LET f == Top(th)
           fields == StructDef(f.struct).fields
       IN /\ f.idx <= Len(fields)
          /\ (StructRefs(fields[f.idx].type) # {} => f.res # NoRes)
          /\ \E r \in {ProcessField(fields[f.idx], f.res, type_cache)} :
                /\ type_cache' = r.cache
                /\ stack' = [stack EXCEPT ![th][Len(stack[th])] =
                     IF IsRaised(r.val)
                     THEN [f EXCEPT
                             !.pc = "raising",
                             !.exc =
                               IF r.val.exc.kind = "TypeConversionError"
                               THEN r.val.exc
                               ELSE SchemaGenerationError(
                                      StructDef(f.struct).name, r.val.exc)]
                     ELSE [f EXCEPT !.raw = Append(@, r.val),
                                    !.idx = @ + 1,
                                    !.res = NoRes]]
    /\ UNCHANGED helpers
    /\ UNCHANGED <<registry, lock, processing, heap, outcome, nalloc, calls,
                   built, inserted, returned, nested_exc>>

\* lines 213-279: all fields are processed; create_model builds the class.
CreateModel(th) ==
    /\ At(th, "fields")
    /\ LET f == Top(th)
           ref == ModelRef(th, nalloc[th] + 1)
       IN /\ f.idx > Len(StructDef(f.struct).fields)
          /\ heap' = heap \cup {CreateModelClass(ref, f.struct, f.raw)}
          /\ nalloc' = [nalloc EXCEPT ![th] = @ + 1]
          /\ built' = [built EXCEPT ![f.struct] = @ + 1]
          /\ stack' = [stack EXCEPT ![th][Len(stack[th])] =
                         [f EXCEPT !.pc = "attach", !.model = ref]]
    /\ UNCHANGED helpers
    /\ UNCHANGED <<registry, lock, processing, type_cache, outcome, calls,
                   inserted, returned, nested_exc>>

\* Faulty variant: the class goes on to the registry without the attribute.
AttachStructSkipped(th) ==
    /\ At(th, "attach")
    /\ stack' = [stack EXCEPT ![th][Len(stack[th])].pc = "lock"]
    /\ UNCHANGED helpers
    /\ UNCHANGED <<registry, lock, processing, type_cache, heap, outcome,
                   nalloc, calls, built, inserted, returned, nested_exc>>

\* line 282: pydantic_model.__msgspec_struct__ = struct_cls
AttachStruct(th) ==
    /\ At(th, "attach")
    /\ LET f == Top(th)
           o == Deref(heap, f.model)
       IN /\ heap' = (heap \ {o})
                        \cup {[o EXCEPT !.msgspec_struct = f.struct]}
          /\ stack' = [stack EXCEPT ![th][Len(stack[th])].pc = "lock"]
    /\ UNCHANGED helpers
    /\ UNCHANGED <<registry, lock, processing, type_cache, outcome, nalloc,
                   calls, built, inserted, returned, nested_exc>>

\* line 285: with _REGISTRY_LOCK (acquire)
AcquireLock(th) ==
    /\ At(th, "lock")
    /\ lock = NoThread
    /\ lock' = th
    /\ stack' = [stack EXCEPT ![th][Len(stack[th])].pc = "recheck"]
    /\ UNCHANGED helpers
    /\ UNCHANGED <<registry, processing, type_cache, heap, outcome, nalloc,
                   calls, built, inserted, returned, nested_exc>>

\* Faulty variant: the thread that lost the race returns the class it
\* built itself.
ReturnExistingOwn(th) ==
    /\ At(th, "recheck")
    /\ LET f == Top(th)
           existing == ExistingLookup(registry, f.struct)
       IN /\ existing # None
          /\ lock' = NoThread
          /\ processing' = [processing EXCEPT ![th] = @ \ {f.struct}]
          /\ stack' = [stack EXCEPT ![th] = ReturnTo(@, f.model)]
          /\ returned' = [returned EXCEPT ![f.struct] = @ \cup {f.model}]
          /\ Finish(th, f.struct, f.model, "existing", f.model)
    /\ UNCHANGED helpers
    /\ UNCHANGED <<registry, type_cache, heap, nalloc, calls, built,
                   inserted, nested_exc>>

\* Faulty variant: the early return leaves the lock taken.
ReturnExistingKeepsLock(th) ==
    /\ At(th, "recheck")
    /\ LET f == Top(th)
           existing == ExistingLookup(registry, f.struct)
       IN /\ existing # None
          /\ processing' = [processing EXCEPT ![th] = @ \ {f.struct}]
          /\ heap' = heap \ {Deref(heap, f.model)}
          /\ stack' = [stack EXCEPT ![th] = ReturnTo(@, existing)]
          /\ returned' = [returned EXCEPT ![f.struct] = @ \cup {existing}]
          /\ Finish(th, f.struct, existing, "existing", f.model)
    /\ UNCHANGED helpers
    /\ UNCHANGED <<registry, lock, type_cache, nalloc, calls, built,
                   inserted, nested_exc>>

\* lines 287-289 and 303-305: the re-check finds another thread's model;
\* it is returned, the lock is released, the struct type is unmarked and
\* the class just built is dropped.
ReturnExisting(th) ==
    /\ At(th, "recheck")
    /\ LET f == Top(th)
           existing == ExistingLookup(registry, f.struct)
       IN /\ existing # None
          /\ lock' = NoThread
          /\ processing' = [processing EXCEPT ![th] = @ \ {f.struct}]
          /\ heap' = heap \ {Deref(heap, f.model)}
          /\ stack' = [stack EXCEPT ![th] = ReturnTo(@, existing)]
          /\ returned' = [returned EXCEPT ![f.struct] = @ \cup {existing}]
          /\ Finish(th, f.struct, existing, "existing", f.model)
    /\ UNCHANGED helpers
    /\ UNCHANGED <<registry, type_cache, nalloc, calls, built, inserted,
                   nested_exc>>

\* lines 287-288: the re-check finds nothing.
RecheckMiss(th) ==
    /\ At(th, "recheck")
    /\ ExistingLookup(registry, Top(th).struct) = None
    /\ stack' = [stack EXCEPT ![th][Len(stack[th])].pc = "insert"]
    /\ UNCHANGED helpers
    /\ UNCHANGED <<registry, lock, processing, type_cache, heap, outcome,
                   nalloc, calls, built, inserted, returned, nested_exc>>

\* lines 290-295 and 303-305: the class is stored, the lock is released,
\* the struct type is unmarked and the class is returned.
Insert(th) ==
    /\ At(th, "insert")
    /\ LET f == Top(th)
       IN /\ registry' = [registry EXCEPT ![f.struct] = f.model]
          /\ inserted' = [inserted EXCEPT ![f.struct] = @ + 1]
          /\ lock' = NoThread
          /\ processing' = [processing EXCEPT ![th] = @ \ {f.struct}]
          /\ stack' = [stack EXCEPT ![th] = ReturnTo(@, f.model)]
          /\ returned' = [returned EXCEPT ![f.struct] = @ \cup {f.model}]
          /\ Finish(th, f.struct, f.model, "inserted", f.model)
    /\ UNCHANGED helpers
    /\ UNCHANGED <<type_cache, heap, nalloc, calls, built, nested_exc>>

\* Faulty variant: no finally clause; a build that raises stays marked.
RaiseKeepsMark(th) ==
    /\ At(th, "raising")
    /\ LET f == Top(th)
       IN /\ stack' = [stack EXCEPT ![th] = RaiseTo(@, f.exc)]
          /\ Finish(th, f.struct, Raised(f.exc), "raised", None)
          /\ nested_exc' =
               IF Len(stack[th]) > 1 /\ nested_exc[th] = NoExc
               THEN [nested_exc EXCEPT ![th] = f.exc]
               ELSE nested_exc
    /\ UNCHANGED helpers
    /\ UNCHANGED <<registry, lock, processing, type_cache, heap, nalloc,
                   calls, built, inserted, returned>>

\* lines 297-305: the exception leaves msgspec_to_pydantic; the finally
\* clause unmarks the struct type.
Raise(th) ==
    /\ At(th, "raising")
    /\ LET f == Top(th)
       IN /\ processing' = [processing EXCEPT ![th] = @ \ {f.struct}]
          /\ stack' = [stack EXCEPT ![th] = RaiseTo(@, f.exc)]
          /\ Finish(th, f.struct, Raised(f.exc), "raised", None)
          /\ nested_exc' =
               IF Len(stack[th]) > 1 /\ nested_exc[th] = NoExc
               THEN [nested_exc EXCEPT ![th] = f.exc]
               ELSE nested_exc
    /\ UNCHANGED helpers
    /\ UNCHANGED <<registry, lock, type_cache, heap, nalloc, calls, built,
                   inserted, returned>>

Next ==
    \E th \in Threads :
        \/ \E s \in BridgeStructs : Call(th, s)
        \/ FastPathHit(th)
        \/ ForwardRef(th)
        \/ BeginBuild(th)
        \/ NestedCall(th)
        \/ ConvertField(th)
        \/ CreateModel(th)
        \/ AttachStruct(th)
        \/ AcquireLock(th)
        \/ ReturnExisting(th)
        \/ RecheckMiss(th)
        \/ Insert(th)
        \/ Raise(th)

Spec == Init /\ [][Next]_vars

\* A step of a call in progress (every action but the start of a call).
Step(th) ==
    \/ FastPathHit(th)
    \/ ForwardRef(th)
    \/ BeginBuild(th)
    \/ NestedCall(th)
    \/ ConvertField(th)
    \/ CreateModel(th)
    \/ AttachStruct(th)
    \/ AcquireLock(th)
    \/ ReturnExisting(th)
    \/ RecheckMiss(th)
    \/ Insert(th)
    \/ Raise(th)

\* The program that converts Dept and Employee.
CycleNext ==
    \E th \in Threads :
        \/ \E s \in CycleStructs : Call(th, s)
        \/ FastPathHit(th)
        \/ ForwardRef(th)
        \/ BeginBuild(th)
        \/ NestedCall(th)
        \/ ConvertField(th)
        \/ CreateModel(th)
        \/ AttachStruct(th)
        \/ AcquireLock(th)
        \/ ReturnExisting(th)
        \/ RecheckMiss(th)
        \/ Insert(th)
        \/ Raise(th)

CycleSpec == Init /\ [][CycleNext]_vars

\* Fair scheduling: a thread that can run does run, and a thread waiting
\* for _REGISTRY_LOCK gets it if the lock is free again and again.
FairSpec ==
    /\ Spec
    /\ \A th \in Threads : WF_vars(Step(th)) /\ SF_vars(AcquireLock(th))

-----------------------------------------------------------------------------
(* The Type Mapper called on its own: convert_msgspec_type_fast applied to *)
(* descriptors drawn from a bounded set, one call after the other, on the  *)
(* converter singleton (whose cache the calls share).                      *)

\* The longest Union drawn.
MaxMembers == 3

\* The members of the unions drawn.
MemberTypes ==
    {IntType, StrType, NoneType, StructType("Node"), LiteralType,
     ListType(IntType), Metadata(NoneType, None)}

\* The descriptors drawn: the members, and their unions.
MapperInputs ==
    MemberTypes \cup
    {UnionType(ms) : ms \in UNION {[1..n -> MemberTypes] : n \in 2..MaxMembers}}

\* What msgspec_to_pydantic(field_type.cls) returns to _convert_struct_type:
\* the registered model, the forward reference (the struct is in flight in
\* the calling thread), or the error of the nested build.
NestedResults ==
    {ModelRef("t1", 1), PyStr(StructDef("Node").name),
     Raised(SchemaGenerationError(StructDef("Node").name,
                                  Exc("FactoryError")))}

\* Faulty variant: a cache of one slot, whatever the type name; once a
\* simple type is cached every simple type is answered with it.
convert_msgspec_type_fast_one_slot(field_type, res) ==
    /\ \E r \in {convert_type(field_type, res, type_cache)} :
          LET cached == {n \in SimpleTypes : type_cache[n] # NotCached}
          IN /\ conversion' =
                  [t |-> "call", field_type |-> field_type, res |-> res,
                   result |-> IF field_type.tag \in SimpleTypes
                                 /\ cached # {}
                              THEN type_cache[CHOOSE n \in cached : TRUE]
                              ELSE r.val,
                   before |-> type_cache]
             /\ type_cache' = r.cache
    /\ UNCHANGED <<bridge, pagination, envelope, core>>

\* convert_msgspec_type_fast(field_type), lines 164-166.
convert_msgspec_type_fast(field_type, res) ==
    /\ \E r \in {convert_type(field_type, res, type_cache)} :
          /\ conversion' = [t |-> "call", field_type |-> field_type,
                            res |-> res, result |-> r.val,
                            before |-> type_cache]
          /\ type_cache' = r.cache
    /\ UNCHANGED <<bridge, pagination, envelope, core>>

MapperNext ==
    \E field_type \in MapperInputs :
        \E res \in IF StructRefs(field_type) = {} THEN {NoRes}
                    ELSE NestedResults :
            convert_msgspec_type_fast(field_type, res)

MapperSpec == Init /\ [][MapperNext]_vars

\* The scalar descriptors: the classes of msgspec.inspect that stand for a
\* type without components.
ScalarInputs ==
    {IntType, StrType, FloatType, BoolType, BytesType, ByteArrayType,
     DateTimeType, DateType, TimeType, TimeDeltaType, DecimalType, UUIDType,
     NoneType}

\* The Type Mapper called on scalar descriptors, again and again.
ScalarNext ==
    \E field_type \in ScalarInputs :
        convert_msgspec_type_fast(field_type, NoRes)

ScalarSpec == Init /\ [][ScalarNext]_vars

\* The longest fixed-arity tuple drawn.
MaxArity == 2

\* Descriptors without components of their own.
LeafTypes ==
    {IntType, StrType, NoneType, StructType("Node"), EnumType("Color")}

\* The components of the containers drawn.
ComponentTypes ==
    LeafTypes \cup
    {ListType(IntType), ListType(StrType), [tag |-> "ListType"],
     DictType(StrType, IntType), UnionType(<<IntType, NoneType>>),
     Metadata(StrType, None)}

\* Container descriptors lacking a component (the hasattr tests of lines
\* 97, 104, 112 and 119 fail).
LackingTypes ==
    {[tag |-> "ListType"], [tag |-> "SetType"], [tag |-> "DictType"],
     [tag |-> "DictType", key_type |-> StrType],
     [tag |-> "DictType", value_type |-> IntType], [tag |-> "TupleType"]}

\* The descriptors drawn: components, containers of them, and further
\* unions, struct types, enums and annotated types.
ContainerInputs ==
    ComponentTypes \cup LackingTypes
    \cup {ListType(d) : d \in ComponentTypes}
    \cup {SetType(d) : d \in ComponentTypes}
    \cup {DictType(k, v) : k \in {StrType, IntType}, v \in ComponentTypes}
    \cup {TupleType(ts) :
            ts \in UNION {[1..n -> LeafTypes] : n \in 0..MaxArity}}
    \cup {UnionType(<<StrType, NoneType>>), UnionType(<<IntType, StrType>>),
          StructType("B"), EnumType("Size"), Metadata(IntType, None),
          FloatType}

\* The Type Mapper called on container descriptors, again and again.
ContainerNext ==
    \E field_type \in ContainerInputs :
        \E res \in IF StructRefs(field_type) = {} THEN {NoRes}
                    ELSE NestedResults :
            convert_msgspec_type_fast(field_type, res)

ContainerSpec == Init /\ [][ContainerNext]_vars

-----------------------------------------------------------------------------
(* The response helpers (core.py lines 330-459) and what they call.        *)

\* Bounds of the arguments drawn for paginated_response.
MaxTotal == 95
MaxPageSize == 10
MaxPage == 11

\* A str object.
Str(s) == [t |-> "str", s |-> s]
\* An f-string: the text s followed by str(e) of the exception e.
Format(s, e) == [t |-> "str", s |-> s, arg |-> e.kind]

\* Faulty variant: the error carries no record of the rejected argument.
PaginationErrorBare(kw) ==
    [t |-> "exc", kind |-> "PaginationError", issues |-> << >>,
     context |-> << >>]

\* exceptions.py lines 86-130.  kw holds the keyword arguments given (an
\* argument left out is None in the code); the message is the list of the
\* issues, and self.page, self.page_size, self.total_results are the
\* entries of context (None where context has no entry).  message is
\* Python's None in every call the library makes.
PaginationError(kw) ==
    LET issue(k, least) ==
            IF k \in DOMAIN kw /\ kw[k] < least
            THEN << [param |-> k, least |-> least, got |-> kw[k]] >>
            ELSE << >>
    IN [t |-> "exc", kind |-> "PaginationError",
        issues |-> issue("page", 1) \o issue("page_size", 1)
                     \o issue("total_results", 0),
        context |-> kw]

\* exceptions.py lines 133-160.
ResponseSerializationError(data, original_error) ==
    [t |-> "exc", kind |-> "ResponseSerializationError", data |-> data,
     original_error |-> original_error]

\* Faulty variant: the number of pages rounded down.
PaginationCalculatorFloor(total_results, page_size, current_page) ==
    LET total_pages ==
            IF page_size > 0 THEN total_results \div page_size ELSE 0
    IN [current_page |-> current_page,
        total_pages |-> total_pages,
        total_results |-> total_results,
        page_size |-> page_size,
        has_next |-> current_page < total_pages,
        has_previous |-> current_page > 1]

\* Faulty variant: has_next also on the last page.
PaginationCalculatorNext(total_results, page_size, current_page) ==
    LET total_pages ==
            IF page_size > 0
            THEN (total_results + page_size - 1) \div page_size
            ELSE 0
    IN [current_page |-> current_page,
        total_pages |-> total_pages,
        total_results |-> total_results,
        page_size |-> page_size,
        has_next |-> current_page <= total_pages,
        has_previous |-> current_page > 1]

\* Faulty variant: an empty result set counted as one page.
PaginationCalculatorOnePage(total_results, page_size, current_page) ==
    LET total_pages ==
            IF page_size > 0
            THEN IF total_results = 0 THEN 1
                 ELSE (total_results + page_size - 1) \div page_size
            ELSE 0
    IN [current_page |-> current_page,
        total_pages |-> total_pages,
        total_results |-> total_results,
        page_size |-> page_size,
        has_next |-> current_page < total_pages,
        has_previous |-> current_page > 1]

\* PaginationCalculator (lines 236-261): __init__ and get_metadata.
PaginationCalculator(total_results, page_size, current_page) ==
    LET total_pages ==
            IF page_size > 0
            THEN (total_results + page_size - 1) \div page_size
            ELSE 0
    IN [current_page |-> current_page,
        total_pages |-> total_pages,
        total_results |-> total_results,
        page_size |-> page_size,
        has_next |-> current_page < total_pages,
        has_previous |-> current_page > 1]

\* lines 264-269
calculate_pagination_fast(total_results, page_size, current_page) ==
    PaginationCalculator(total_results, page_size, current_page)

\* lines 277-283
create_response_dict_fast(data, message, status) ==
    [data |-> data, message |-> message, status |-> status]

\* lines 286-307
create_paginated_dict_fast(items, total_results, current_page, page_size, message, status) ==
    LET metadata ==
            calculate_pagination_fast(total_results, page_size, current_page)
    IN [items |-> items,
        current_page |-> metadata.current_page,
        total_pages |-> metadata.total_pages,
        total_results |-> metadata.total_results,
        page_size |-> metadata.page_size,
        has_next |-> metadata.has_next,
        has_previous |-> metadata.has_previous,
        message |-> message,
        status |-> status]

\* A list object.
PyList(elems) == [t |-> "list", elems |-> elems]
\* An object msgspec.json.encode has no encoding for.
Opaque == [t |-> "object"]

RECURSIVE Encodable(_)
\* Can msgspec.json.encode encode the value?
Encodable(v) ==
    IF v.t = "list" THEN \A i \in DOMAIN v.elems : Encodable(v.elems[i])
    ELSE v # Opaque

\* The exceptions msgspec.json.encode raises for such an object: its own
\* EncodeError, or another exception (TypeError).
EncodeFailures == {"EncodeError", "TypeError"}

\* class ResponseModel(msgspec.Struct, rename="camel"), lines 54-59
ResponseModel(status, data, message) ==
    [t |-> "ResponseModel", status |-> status, data |-> data,
     message |-> message]

\* class PaginatedResponse(msgspec.Struct, rename="camel"), lines 62-73,
\* constructed from the keyword arguments d.
PaginatedResponse(d) ==
    [t |-> "PaginatedResponse", items |-> d.items,
     current_page |-> d.current_page, total_pages |-> d.total_pages,
     total_results |-> d.total_results, page_size |-> d.page_size,
     has_next |-> d.has_next, has_previous |-> d.has_previous,
     status |-> d.status, message |-> d.message]

\* MsgspecJSONResponse.render (lines 112-119): the JSON object of a struct,
\* its fields under their encoded (camelCase) names.
render(content) ==
    IF content.t = "PaginatedResponse"
    THEN [items |-> content.items, currentPage |-> content.current_page,
          totalPages |-> content.total_pages,
          totalResults |-> content.total_results,
          pageSize |-> content.page_size, hasNext |-> content.has_next,
          hasPrevious |-> content.has_previous, status |-> content.status,
          message |-> content.message]
    ELSE [status |-> content.status, data |-> content.data,
          message |-> content.message]

\* MsgspecJSONResponse(content=..., status_code=...): the body is rendered
\* at construction; err is what the encoder raises if it cannot encode.
MsgspecJSONResponse(content, status_code, err) ==
    IF ~Encodable(IF content.t = "PaginatedResponse"
                  THEN content.items ELSE content.data)
    THEN Raised(Exc(err))
    ELSE [t |-> "response", status_code |-> status_code,
          content |-> content, body |-> render(content)]

Max(a, b) == IF a >= b THEN a ELSE b

\* Faulty variant: the items are dropped on every page beyond max_page,
\* also for a result set that is empty.
PageItemsBeyond(items, total_results, page, page_size) ==
    IF page > Max(1, (total_results + page_size - 1) \div page_size)
    THEN PyList(<< >>) ELSE items

\* Faulty variant: the caller's items are kept on a page out of range.
PageItemsKept(items, total_results, page, page_size) == items

\* paginated_response lines 422-431: the items shown, which are none for a
\* page beyond the last one of a result set that is not empty.
PageItems(items, total_results, page, page_size) ==
    IF page_size > 0
    THEN LET max_page ==
                 Max(1, (total_results + page_size - 1) \div page_size)
         IN IF page > max_page /\ total_results > 0
            THEN PyList(<< >>) ELSE items
    ELSE items

\* Faulty variant: the message argument passed on as it is.
OrEmptyKept(message) == message

\* message or ""
OrEmpty(message) ==
    IF message = None \/ message = Str("") THEN Str("") ELSE message

\* response(), lines 330-383: what the call returns or raises.
response(data, message, status, status_code, err) ==
    LET response_dict ==
            create_response_dict_fast(data, OrEmpty(message), status)
        response_model ==
            ResponseModel(response_dict.status, response_dict.data,
                          response_dict.message)
        r == MsgspecJSONResponse(response_model, status_code, err)
    IN IF ~IsRaised(r) THEN r
       ELSE IF r.exc.kind = "EncodeError"
       THEN Raised(ResponseSerializationError(data, r.exc))
       ELSE MsgspecJSONResponse(
              ResponseModel(Str("error"), None,
                            Format("Failed to create response: ", r.exc)),
              500, err)

\* paginated_response(), lines 386-459: what the call returns or raises.
\* Faulty variant: the parameter checks made inside the try block, so that
\* a PaginationError is answered with the error envelope.
paginated_response_guarded(items, total_results, page, page_size, message, status, status_code, err) ==
    LET shown == PageItems(items, total_results, page, page_size)
        r == IF page < 1 \/ page_size < 1 \/ total_results < 0
             THEN Raised(Exc("PaginationError"))
             ELSE MsgspecJSONResponse(
                    PaginatedResponse(
                      create_paginated_dict_fast(shown, total_results, page,
                        page_size, OrEmpty(message), status)),
                    status_code, err)
    IN IF ~IsRaised(r) THEN r
       ELSE IF r.exc.kind = "EncodeError"
       THEN Raised(ResponseSerializationError(shown, r.exc))
       ELSE MsgspecJSONResponse(
              ResponseModel(Str("error"), None,
                Format("Failed to create paginated response: ", r.exc)),
              500, err)

\* paginated_response(), lines 386-459: what the call returns or raises.
paginated_response(items, total_results, page, page_size, message, status, status_code, err) ==
    IF page < 1 THEN Raised(PaginationError([page |-> page]))
    ELSE IF page_size < 1
    THEN Raised(PaginationError([page_size |-> page_size]))
    ELSE IF total_results < 0
    THEN Raised(PaginationError([total_results |-> total_results]))
    ELSE
      LET shown == PageItems(items, total_results, page, page_size)
          paginated_dict ==
              create_paginated_dict_fast(shown, total_results, page,
                                         page_size, OrEmpty(message), status)
          r == MsgspecJSONResponse(PaginatedResponse(paginated_dict),
                                   status_code, err)
      IN IF ~IsRaised(r) THEN r
         ELSE IF r.exc.kind = "EncodeError"
         THEN Raised(ResponseSerializationError(shown, r.exc))
         ELSE MsgspecJSONResponse(
                ResponseModel(Str("error"), None,
                  Format("Failed to create paginated response: ", r.exc)),
                500, err)

-----------------------------------------------------------------------------
(* The response helpers called with arguments drawn from bounded sets.     *)

ItemLists ==
    {PyList(<< >>), PyList(<< PyValue("x") >>), PyList(<< Opaque >>),
     PyList(<< PyValue("x"), PyValue("y") >>)}

\* The calls of paginated_response drawn.
PaginatedResponseCalls ==
    [t : {"pending"}, fn : {"paginated_response"}, items : ItemLists,
     total_results : (-1)..MaxTotal, page : (-1)..MaxPage,
     page_size : (-1)..MaxPageSize, message : {None, Str("done")}]

\* The direct calls of calculate_pagination_fast drawn.
CalculatePaginationCalls ==
    [t : {"pending"}, fn : {"calculate_pagination_fast"},
     total_results : (-1)..MaxTotal, page : (-1)..MaxPage,
     page_size : (-1)..MaxPageSize]

\* One call is made in a run, with arguments drawn from the sets above.
PagerInit ==
    /\ InitBridge
    /\ conversion = NoCall
    /\ envelope = NoCall
    /\ core = Imported
    /\ pagination \in PaginatedResponseCalls \cup CalculatePaginationCalls

\* The call paginated_response(items, total_results, page, page_size,
\* message) returns or raises.
CallPaginatedResponse ==
    /\ pagination.t = "pending" /\ pagination.fn = "paginated_response"
    /\ \E err \in EncodeFailures :
          pagination' =
            [t |-> "call", fn |-> pagination.fn, items |-> pagination.items,
             total_results |-> pagination.total_results,
             page |-> pagination.page, page_size |-> pagination.page_size,
             message |-> pagination.message,
             result |-> paginated_response(pagination.items,
                          pagination.total_results, pagination.page,
                          pagination.page_size, pagination.message,
                          Str("ok"), 200, err)]
    /\ UNCHANGED <<bridge, type_cache, conversion, envelope, core>>

\* The call calculate_pagination_fast(total_results, page_size,
\* current_page) returns.
CallCalculatePagination ==
    /\ pagination.t = "pending"
    /\ pagination.fn = "calculate_pagination_fast"
    /\ pagination' =
          [t |-> "call", fn |-> pagination.fn,
           total_results |-> pagination.total_results,
           page |-> pagination.page, page_size |-> pagination.page_size,
           result |-> calculate_pagination_fast(pagination.total_results,
                        pagination.page_size, pagination.page)]
    /\ UNCHANGED <<bridge, type_cache, conversion, envelope, core>>

PagerNext == CallPaginatedResponse \/ CallCalculatePagination

PagerSpec == PagerInit /\ [][PagerNext]_vars

\* A call response(data, message, status, status_code).
CallResponse ==
    \E data \in {None, PyValue("user"), Str("text"), Opaque} \cup ItemLists,
       message \in {None, Str(""), Str("done")}, status \in {Str("ok"), Str("created")},
       status_code \in {200, 201, 404}, err \in EncodeFailures :
        /\ envelope' =
              [t |-> "call", data |-> data, message |-> message,
               status |-> status, status_code |-> status_code,
               result |-> response(data, message, status, status_code, err)]
        /\ UNCHANGED <<bridge, type_cache, conversion, pagination, core>>

ResponseSpec == Init /\ [][CallResponse]_vars

\* A program that makes one call of one of the two response helpers:
\* paginated_response with the arguments drawn, or response.
HelperInit ==
    /\ InitBridge
    /\ conversion = NoCall
    /\ envelope = NoCall
    /\ core = Imported
    /\ pagination \in PaginatedResponseCalls \cup {NoCall}

\* The one call of response, made by a program that calls it.
CallResponseOnce ==
    /\ pagination = NoCall /\ envelope = NoCall
    /\ CallResponse

HelperNext == CallPaginatedResponse \/ CallResponseOnce

HelperSpec == HelperInit /\ [][HelperNext]_vars

-----------------------------------------------------------------------------
(* The struct graph, for the statements below.                             *)

\* The struct types the fields of s refer to.
Refs(s) ==
    UNION {StructRefs(StructDef(s).fields[i].type) :
             i \in DOMAIN StructDef(s).fields}

RECURSIVE Closure(_)
Closure(S) ==
    LET T == S \cup UNION {Refs(s) : s \in S}
    IN IF T = S THEN S ELSE Closure(T)

\* The struct types reachable from s, s included.
Reachable(s) == Closure({s})

RECURSIVE RefsUnderUnion(_)
\* The struct types a descriptor refers to from inside a UnionType.
RefsUnderUnion(d) ==
    CASE d.tag = "UnionType" /\ hasattr(d, "types") ->
           UNION {StructRefs(d.types[i]) : i \in DOMAIN d.types}
      [] d.tag \in {"ListType", "SetType"} /\ hasattr(d, "item_type") ->
           RefsUnderUnion(d.item_type)
      [] d.tag = "DictType" /\ hasattr(d, "key_type")
                            /\ hasattr(d, "value_type") ->
           RefsUnderUnion(d.key_type) \cup RefsUnderUnion(d.value_type)
      [] d.tag = "TupleType" /\ hasattr(d, "item_types") ->
           UNION {RefsUnderUnion(d.item_types[i]) :
                    i \in DOMAIN d.item_types}
      [] d.tag = "Metadata" /\ hasattr(d, "type") -> RefsUnderUnion(d.type)
      [] OTHER -> {}

\* No build in the graph of s can raise: no default factory raises, and no
\* union holds a struct type that can be in flight when the union is built.
Convertible(s) ==
    \A x \in Reachable(s) :
        \A i \in DOMAIN StructDef(x).fields :
            LET f == StructDef(x).fields[i]
            IN /\ ~(f.default = NODEFAULT /\ f.default_factory # NODEFAULT
                     /\ IsRaised(f.default_factory.yields))
               /\ \A r \in RefsUnderUnion(f.type) : x \notin Reachable(r)

\* The struct types whose build is in progress in thread th.
InProgress(th) ==
    {stack[th][i].struct :
       i \in {j \in DOMAIN stack[th] : stack[th][j].pc # "start"}}

Completed(th) == ~Busy(th) /\ outcome[th].path # "none"

-----------------------------------------------------------------------------
(* Properties of the schema cache.                                         *)

\* C1 (idempotence): every model a call of msgspec_to_pydantic(s) ever
\* returned, to a top-level caller or to a nested conversion, in any thread,
\* is the one model the registry holds for s.
C1_Idempotence ==
    \A s \in Structs : returned[s] \subseteq {registry[s]}

\* Two threads have each completed a call for the same struct type, one by
\* building and inserting the model, the other by a cache hit.
C1_Witness ==
    \E s \in Structs : \E t1, t2 \in Threads :
        /\ Completed(t1) /\ Completed(t2)
        /\ outcome[t1].struct = s /\ outcome[t2].struct = s
        /\ outcome[t1].path = "inserted" /\ outcome[t2].path = "hit"
        /\ outcome[t1].val = outcome[t2].val

C4_SingleAssignment ==
    [][\A s \in Structs :
          registry[s] # None => registry'[s] = registry[s]]_vars

\* A thread holds the lock for a struct type that is already registered:
\* the re-check is what keeps the entry.
C4_Witness ==
    \E th \in Threads :
        At(th, "recheck") /\ registry[Top(th).struct] # None

\* The nesting of msgspec_to_pydantic calls in a thread is at most the
\* number of struct types reachable from the argument of its top-level
\* call, plus one.
DepthBounded ==
    \A th \in Threads :
        Busy(th) =>
            Len(stack[th]) <= Cardinality(Reachable(stack[th][1].struct)) + 1

\* C5 (recursion safety): for every struct graph, self-referential and
\* cyclic ones included, the nesting depth stays within the bound, and
\* under fair scheduling every call in progress comes to its end (it
\* returns or raises; none waits for ever).
C5_RecursionSafety ==
    /\ []DepthBounded
    /\ \A th \in Threads : Busy(th) ~> ~Busy(th)

\* A call for A, in the cycle A -> B -> A, has re-entered A at depth 3,
\* the bound for A.
C5_Witness ==
    \E th \in Threads :
        /\ Busy(th) /\ Len(stack[th]) = 3
        /\ stack[th][1].struct = "A" /\ Top(th).struct = "A"
        /\ Cardinality(Reachable("A")) = 2

\* C6 as stated: when a call whose build raised returns to its caller, the
\* registry holds no entry for its struct type.
C6_NoEntryAfterFailedBuild ==
    [][\A th \in Threads :
          Raise(th) => registry[Top(th).struct] = None]_vars

\* C7 as stated: the error a top-level call raises is the very error the
\* nested build raised, same kind and same context.
C7_NestedErrorUnchanged ==
    \A th \in Threads :
        (Completed(th) /\ outcome[th].path = "raised"
            /\ nested_exc[th] # NoExc)
        => outcome[th].val.exc = nested_exc[th]

\* C8 (isolation by identity): two distinct struct types, also with equal
\* names and fields, never share a model: their registry entries differ,
\* no model is returned for both, a model returned for s was built from s,
\* and no call for s returns a model before one was inserted for s.
C8_IsolationByIdentity ==
    \A s1, s2 \in Structs :
        /\ returned[s1] # {} => inserted[s1] >= 1
        /\ \A m \in returned[s1] :
              \A c \in heap : c.ref = m => c.msgspec_struct = s1
        /\ s1 # s2 =>
              /\ returned[s1] \cap returned[s2] = {}
              /\ (registry[s1] # None /\ registry[s2] # None
                    => registry[s1] # registry[s2])

\* The two declarations of User are both registered, and a call for the
\* second was answered after the first was in the registry.
C8_Witness ==
    /\ registry["U1"] # None /\ registry["U2"] # None
    /\ StructDef("U1").name = StructDef("U2").name
    /\ returned["U1"] # {} /\ returned["U2"] # {}

\* Every registered class has one property for each field of its struct
\* type, by name and in order, and its __msgspec_struct__ is set.
RegisteredComplete ==
    \A s \in Structs :
        registry[s] # None =>
            /\ \E c \in heap : c.ref = registry[s]
            /\ LET c == Deref(heap, registry[s])
                   fields == StructDef(s).fields
               IN /\ c.msgspec_struct = s
                  /\ DOMAIN c.fields = DOMAIN fields
                  /\ \A i \in DOMAIN fields :
                        c.fields[i].name = fields[i].name

\* No step changes a class that is in the registry.
RegisteredFrozen ==
    \A s \in Structs :
        registry[s] # None =>
            Deref(heap', registry[s]) = Deref(heap, registry[s])

\* C9 (publish ordering): a class is complete when it enters the registry
\* and is never modified afterwards.
C9_PublishOrdering ==
    []RegisteredComplete /\ [][RegisteredFrozen]_vars

\* A thread reads a registered class of three fields on the fast path while
\* another thread is building.
C9_Witness ==
    \E t1, t2 \in Threads :
        /\ t1 # t2
        /\ At(t1, "start") /\ registry[Top(t1).struct] # None
        /\ Len(Deref(heap, registry[Top(t1).struct]).fields) = 3
        /\ Busy(t2) /\ Top(t2).pc \in {"fields", "attach"}

\* C10 (per-thread in-flight set): the in-flight set of a thread holds
\* exactly the struct types that thread is building, and a call is
\* answered with the forward reference only if its own thread is building
\* that struct type.
C10_InFlightPerThread ==
    /\ [](\A th \in Threads : processing[th] = InProgress(th))
    /\ [][\A th \in Threads :
            ForwardRef(th) => Top(th).struct \in InProgress(th)]_vars

\* A thread starts the build of a struct type that another thread is
\* building at that moment.
C10_Witness ==
    \E t1, t2 \in Threads :
        /\ t1 # t2
        /\ At(t1, "fields") /\ Top(t1).idx = 1 /\ Len(stack[t1]) = 1
        /\ Top(t1).struct \in processing[t2]
        /\ Top(t1).struct \in processing[t1]

-----------------------------------------------------------------------------
(* Properties of the Type Mapper.                                          *)

EmptyCache == [n \in TypeNames |-> NotCached]

\* The mapping of each member of a union, with res for its struct types.
MappedMembers(d, res) ==
    [i \in DOMAIN d.types |-> convert_type(d.types[i], res, EmptyCache).val]

\* The union type of the annotations ms, in that order (nested unions
\* flattened, repetitions dropped, a single member standing for itself).
UnionOf(ms) ==
    LET RECURSIVE Flat(_)
        Flat(s) == IF s = <<>> THEN <<>>
                   ELSE UnionArgs(Head(s)) \o Flat(Tail(s))
        a == Dedup(Flat(ms))
    IN IF Len(a) = 1 THEN a[1] ELSE [t |-> "Union", args |-> a]

\* C11 as stated: a union of two members of which one maps to NoneType
\* maps to "optional X", X being the mapping of the other member, in either
\* order; every other union maps to the union of its mapped members in
\* member order.  (For unions whose members all have a mapping.)
C11_OptionalCollapsing ==
    (conversion # NoCall /\ conversion.field_type.tag = "UnionType") =>
        LET ms == MappedMembers(conversion.field_type, conversion.res)
            nones == {i \in DOMAIN ms : ms[i] = PyNoneType}
        IN (\A i \in DOMAIN ms : ~IsRaised(ms[i])) =>
             IF Len(ms) = 2 /\ Cardinality(nones) = 1
             THEN \E i \in DOMAIN ms \ nones :
                     conversion.result = UnionOf(<<ms[i], PyNoneType>>)
             ELSE Cardinality(nones) < Len(ms) =>
                     conversion.result = UnionOf(ms)

\* The type names convert_type has a branch for (lines 26-73).
RecognizedTypes ==
    SimpleTypes \cup
    {"ListType", "DictType", "SetType", "TupleType", "UnionType",
     "StructType", "EnumType", "NoneType", "Metadata"}

\* Descriptors of classes convert_type has no branch for.
UnrecognizedInputs ==
    {LiteralType, AnyType, [tag |-> "LiteralType"],
     [tag |-> "AnyType", item_type |-> IntType]}

\* C12 (total over unrecognized shapes): whatever the converter's cache
\* holds, convert_type returns Any for a descriptor of an unrecognized
\* class, raising nothing and leaving the cache as it is; in a build, the
\* raw definition of a field of such a type has the type Any and no build
\* fails at such a field; and a call for a struct type with such a field,
\* whose other fields convert, returns a model.
C12_TotalOverUnrecognized ==
    /\ \A d \in UnrecognizedInputs :
          /\ d.tag \notin RecognizedTypes
          /\ convert_type(d, NoRes, type_cache) = Ret(PyAny, type_cache)
    /\ \A th \in Threads : \A k \in DOMAIN stack[th] :
          LET f == stack[th][k]
              fields == StructDef(f.struct).fields
          IN /\ \A i \in DOMAIN f.raw :
                   fields[i].type.tag \notin RecognizedTypes
                     => f.raw[i].python_type = PyAny
             /\ (f.pc = "raising" /\ f.idx \in DOMAIN fields)
                   => fields[f.idx].type.tag \in RecognizedTypes
    /\ \A th \in Threads :
          (Completed(th) /\ Convertible(outcome[th].struct))
            => outcome[th].path # "raised"

\* A call for User, whose field role is a Literal, has inserted its model,
\* in which role has the type Any.
C12_Witness ==
    \E th \in Threads :
        /\ Completed(th) /\ outcome[th].path = "inserted"
        /\ \E i \in DOMAIN StructDef(outcome[th].struct).fields :
              /\ StructDef(outcome[th].struct).fields[i].type = LiteralType
              /\ Deref(heap, outcome[th].val).fields[i].python_type = PyAny

-----------------------------------------------------------------------------
(* Properties of the response helpers.                                     *)

\* The call of fn drawn in this run has returned or raised.
Done(fn) == pagination.t = "call" /\ pagination.fn = fn

\* The parameters of the call that violate their precondition.
Violations ==
    {k \in {"page", "page_size"} : pagination[k] < 1}
      \cup {k \in {"total_results"} : pagination[k] < 0}

\* The call returned the paginated envelope (not the error envelope).
PaginatedEnvelope ==
    /\ ~IsRaised(pagination.result)
    /\ pagination.result.content.t = "PaginatedResponse"

\* n is the ceiling of total / size (total >= 0, size >= 1).
IsCeiling(n, total, size) == n * size >= total /\ (n - 1) * size < total

\* C13 (precondition rejection): a call with page < 1, page_size < 1 or
\* total_results < 0 raises PaginationError and returns no response; if
\* exactly one parameter is invalid, the error records that parameter with
\* its value, in its message and its context, and no other parameter.
C13_PreconditionRejection ==
    (Done("paginated_response") /\ Violations # {}) =>
        /\ IsRaised(pagination.result)
        /\ pagination.result.exc.kind = "PaginationError"
        /\ Cardinality(Violations) = 1 =>
              \A k \in Violations :
                 /\ DOMAIN pagination.result.exc.context = {k}
                 /\ pagination.result.exc.context[k] = pagination[k]
                 /\ Len(pagination.result.exc.issues) = 1
                 /\ pagination.result.exc.issues[1].param = k
                 /\ pagination.result.exc.issues[1].got = pagination[k]

\* Only total_results is invalid (-1), and the call has raised.
C13_Witness ==
    /\ Done("paginated_response") /\ Violations = {"total_results"}
    /\ IsRaised(pagination.result)
    /\ pagination.result.exc.context = [total_results |-> -1]

\* C14 as stated: every parameter that violates its precondition is
\* identified in the PaginationError raised.
C14_NamesEveryOffender ==
    (Done("paginated_response") /\ Violations # {}) =>
        /\ IsRaised(pagination.result)
        /\ pagination.result.exc.kind = "PaginationError"
        /\ \A k \in Violations :
              /\ k \in DOMAIN pagination.result.exc.context
              /\ \E i \in DOMAIN pagination.result.exc.issues :
                    pagination.result.exc.issues[i].param = k

\* C15 (number of pages): for total_results >= 0 and page_size >= 1 the
\* calculator's total_pages is the least n with n * page_size >=
\* total_results, and is 0 exactly when total_results is 0; for page_size
\* <= 0 it is 0.  The same number is in the envelope paginated_response
\* returns.
C15_TotalPagesIsCeiling ==
    /\ Done("calculate_pagination_fast") =>
          LET n == pagination.result.total_pages
          IN /\ (pagination.total_results >= 0 /\ pagination.page_size >= 1)
                  => /\ n >= 0
                     /\ IsCeiling(n, pagination.total_results,
                                  pagination.page_size)
                     /\ (n = 0 <=> pagination.total_results = 0)
             /\ pagination.page_size <= 0 => n = 0
    /\ (Done("paginated_response") /\ PaginatedEnvelope) =>
          IsCeiling(pagination.result.content.total_pages,
                    pagination.total_results, pagination.page_size)

\* The calculator has returned 10 pages for 95 results in pages of 10.
C15_Witness ==
    /\ Done("calculate_pagination_fast")
    /\ pagination.total_results = 95 /\ pagination.page_size = 10
    /\ pagination.result.total_pages = 10

\* The arguments of the call are valid.
ValidArguments ==
    pagination.page >= 1 /\ pagination.page_size >= 1
      /\ pagination.total_results >= 0

\* C16 (envelope metadata): a call with valid arguments, whose items the
\* encoder can encode, returns the paginated envelope; and the envelope of
\* a call with valid arguments has has_next = (page < total_pages),
\* has_previous = (page > 1), and current_page, page_size, total_results
\* equal to the arguments, in the struct and in its JSON body.
C16_EnvelopeMetadata ==
    (Done("paginated_response") /\ ValidArguments) =>
        /\ Encodable(pagination.items) => PaginatedEnvelope
        /\ PaginatedEnvelope =>
              LET c == pagination.result.content
                  b == pagination.result.body
              IN /\ c.has_next = (pagination.page < c.total_pages)
                 /\ c.has_previous = (pagination.page > 1)
                 /\ c.current_page = pagination.page
                 /\ c.page_size = pagination.page_size
                 /\ c.total_results = pagination.total_results
                 /\ b.hasNext = c.has_next /\ b.hasPrevious = c.has_previous
                 /\ b.currentPage = c.current_page
                 /\ b.pageSize = c.page_size
                 /\ b.totalResults = c.total_results

\* The envelope of a page in the middle: page 3 of 5, both flags TRUE.
C16_Witness ==
    /\ Done("paginated_response") /\ PaginatedEnvelope
    /\ pagination.page = 3 /\ pagination.result.content.total_pages = 5
    /\ pagination.result.content.has_next
    /\ pagination.result.content.has_previous

\* C17 as stated: for total_results = 0 and any valid page and page_size,
\* the envelope has total_pages = 0, has_next = FALSE, has_previous = FALSE.
C17_EmptyResultSetNoPrevious ==
    (Done("paginated_response") /\ ValidArguments
       /\ pagination.total_results = 0) =>
        /\ PaginatedEnvelope
        /\ pagination.result.content.total_pages = 0
        /\ pagination.result.content.has_next = FALSE
        /\ pagination.result.content.has_previous = FALSE

\* C17 as amended: for total_results = 0 and any valid page and page_size,
\* the call returns the envelope with the caller's items, total_pages = 0
\* and has_next = FALSE; has_previous is (page > 1), FALSE on page 1 only.
C17_EmptyResultSet ==
    (Done("paginated_response") /\ ValidArguments
       /\ pagination.total_results = 0) =>
        /\ Encodable(pagination.items) => PaginatedEnvelope
        /\ PaginatedEnvelope =>
              /\ pagination.result.content.total_pages = 0
              /\ pagination.result.content.has_next = FALSE
              /\ pagination.result.content.has_previous
                    = (pagination.page > 1)
              /\ pagination.result.content.items = pagination.items

\* Page 2 of an empty result set: the envelope has has_previous = TRUE.
C17_Witness ==
    /\ Done("paginated_response") /\ PaginatedEnvelope
    /\ pagination.total_results = 0 /\ pagination.page = 2
    /\ pagination.result.content.total_pages = 0
    /\ pagination.result.content.has_previous

\* The page asked for lies beyond the last page.
PageOutOfRange ==
    (pagination.page - 1) * pagination.page_size >= pagination.total_results

\* C18 (page out of range): a call with valid arguments, total_results > 0
\* and page > total_pages raises nothing and returns the paginated
\* envelope, with status code 200, whatever the caller's items are (also
\* items the encoder cannot encode); its items are empty, total_pages is
\* the ceiling of total_results / page_size, has_next is FALSE and
\* has_previous is TRUE.
C18_OutOfRangePage ==
    (Done("paginated_response") /\ ValidArguments
       /\ pagination.total_results > 0 /\ PageOutOfRange) =>
        /\ PaginatedEnvelope
        /\ pagination.result.status_code = 200
        /\ pagination.result.content.items = PyList(<< >>)
        /\ pagination.result.body.items = PyList(<< >>)
        /\ IsCeiling(pagination.result.content.total_pages,
                     pagination.total_results, pagination.page_size)
        /\ pagination.page > pagination.result.content.total_pages
        /\ pagination.result.content.has_next = FALSE
        /\ pagination.result.content.has_previous = TRUE

\* total_results = 95, page_size = 10, page = 11, with an item the encoder
\* cannot encode: the envelope has no items and total_pages = 10.
C18_Witness ==
    /\ Done("paginated_response") /\ PaginatedEnvelope
    /\ pagination.total_results = 95 /\ pagination.page_size = 10
    /\ pagination.page = 11 /\ pagination.items = PyList(<< Opaque >>)
    /\ pagination.result.content.total_pages = 10
    /\ pagination.result.content.items = PyList(<< >>)

\* The call of response has returned or raised.
Responded == envelope.t = "call"

-----------------------------------------------------------------------------
\* The fields of struct type s whose encoded name is not the declared name.
RenamedFields(s) ==
    {i \in DOMAIN StructDef(s).fields :
        StructDef(s).fields[i].encode_name # StructDef(s).fields[i].name}

\* C19 (renaming propagation): a generated class is populate-by-name if
\* and only if some field of its struct type has an encoded name unlike
\* its declared name; each field whose encoded name differs has that
\* encoded name as its alias, and each other field has no alias.
C19_RenamingPropagation ==
    \A c \in heap : \A s \in Structs :
        StructDef(s).name = c.name =>
            /\ c.populate_by_name = (RenamedFields(s) # {})
            /\ DOMAIN c.fields = DOMAIN StructDef(s).fields
            /\ \A i \in DOMAIN c.fields :
                  LET kw == c.fields[i].field_kwargs
                  IN IF i \in RenamedFields(s)
                     THEN /\ "alias" \in DOMAIN kw
                          /\ kw.alias = StructDef(s).fields[i].encode_name
                     ELSE "alias" \notin DOMAIN kw

\* The registry holds the class of User, populate-by-name with the alias
\* fullName on full_name and no alias on friends, and the class of B,
\* which has no renamed field and is not populate-by-name.
C19_Witness ==
    /\ registry["U1"] # None /\ registry["B"] # None
    /\ LET u == Deref(heap, registry["U1"])
           b == Deref(heap, registry["B"])
       IN /\ u.populate_by_name
          /\ u.fields[2].field_kwargs.alias = "fullName"
          /\ "alias" \notin DOMAIN u.fields[3].field_kwargs
          /\ ~b.populate_by_name
          /\ "alias" \notin DOMAIN b.fields[1].field_kwargs

-----------------------------------------------------------------------------
(* The bridge: errors, re-entry, in-flight marking, locking, cache hits.   *)

\* The error kinds msgspec_to_pydantic lets out.
ErrorKinds == {"TypeConversionError", "SchemaGenerationError"}

\* The exception the Type Mapper raises on the current field of the
\* activation f (given what the nested call returned), or NoExc.
MapperFailure(f) ==
    LET r == convert_type(StructDef(f.struct).fields[f.idx].type, f.res,
                          type_cache).val
    IN IF IsRaised(r) THEN r.exc ELSE NoExc

\* The exception leaving the activation f is the one its failure calls for.
RaisesAsSpecified(f) ==
    LET field == StructDef(f.struct).fields[f.idx]
    IN \/ /\ f.exc.kind = "TypeConversionError"
          /\ f.exc.field_type = field.type
          /\ IF StructRefs(field.type) # {} /\ f.res = NoRes
             THEN f.exc.original_error.kind \in ErrorKinds
             ELSE /\ MapperFailure(f) # NoExc
                  /\ f.exc.original_error = MapperFailure(f)
       \/ /\ f.exc.kind = "SchemaGenerationError"
          /\ f.exc.struct_name = StructDef(f.struct).name
          /\ MapperFailure(f) = NoExc
          /\ field.default = NODEFAULT
          /\ field.default_factory # NODEFAULT
          /\ f.exc.original_error = field.default_factory.yields.exc

\* C21 (error surface): a call of msgspec_to_pydantic(S) that raises
\* raises TypeConversionError or SchemaGenerationError and nothing else; a
\* failure of the Type Mapper on a field of S (its own, or that of the
\* nested call it makes) is raised as TypeConversionError with that
\* field's type and the cause; any other failure of the build (here a
\* default factory that raises) is raised as SchemaGenerationError with
\* the name of S and the original error.
C21_ErrorSurface ==
    /\ [](\A th \in Threads :
            /\ \A i \in DOMAIN stack[th] :
                  stack[th][i].pc = "raising" =>
                      RaisesAsSpecified(stack[th][i])
            /\ (Completed(th) /\ outcome[th].path = "raised") =>
                  outcome[th].val.exc.kind \in ErrorKinds)
    /\ [][\A th \in Threads :
            (Raise(th) /\ Len(stack[th]) > 1) =>
                /\ stack'[th][Len(stack'[th])].pc = "raising"
                /\ stack'[th][Len(stack'[th])].exc.original_error
                      = Top(th).exc]_vars

\* One thread's call for Bad raised SchemaGenerationError for the factory
\* that raises; the other thread's call for Node raised
\* TypeConversionError for the union the mapper could not build.
C21_Witness ==
    \E t1, t2 \in Threads :
        /\ Completed(t1) /\ outcome[t1].struct = "Bad"
        /\ outcome[t1].val =
              Raised(SchemaGenerationError("Bad", Exc("FactoryError")))
        /\ Completed(t2) /\ outcome[t2].struct = "Node"
        /\ outcome[t2].val =
              Raised(TypeConversionError(StructDef("Node").fields[2].type,
                                         Exc("TypeError")))

\* Thread th is at the start of a call for a struct type that is in its
\* in-flight set and not in the registry.
ReEntered(th) ==
    /\ At(th, "start")
    /\ Top(th).struct \in processing[th]
    /\ registry[Top(th).struct] = None

\* C22 (re-entry): the step of a thread that called msgspec_to_pydantic(S)
\* with S in its in-flight set and not in the registry ends the call: the
\* caller receives the forward reference of S, no build of S is started,
\* and the registry, the in-flight sets, the lock and the classes are what
\* they were.
C22_ReEntryPlaceholder ==
    [][\A th \in Threads :
          (ReEntered(th) /\ stack'[th] # stack[th]) =>
              /\ stack'[th] =
                    ReturnTo(stack[th], PyStr(StructDef(Top(th).struct).name))
              /\ Len(stack'[th]) = Len(stack[th]) - 1
              /\ UNCHANGED <<registry, processing, lock, heap, built,
                             inserted, nalloc, type_cache>>]_vars

\* The build of Node has received the forward reference of Node from its
\* nested call: Node is still in flight, once, and not registered, and the
\* lock is free.
C22_Witness ==
    \E th \in Threads :
        /\ At(th, "fields") /\ Len(stack[th]) = 1
        /\ Top(th).struct = "Node"
        /\ Top(th).res = PyStr(StructDef("Node").name)
        /\ processing[th] = {"Node"}
        /\ registry["Node"] = None
        /\ lock = NoThread

\* The struct types marked by the first n activations of thread th: those
\* of the activations that are past line 204.
MarkedBy(th, n) ==
    {stack[th][i].struct :
       i \in {j \in 1..n : stack[th][j].pc # "start"}}

\* C23 (scoped in-flight marking): a thread with no call in progress has
\* an empty in-flight set; during a build the set holds exactly the struct
\* types of the builds on the thread's stack; a call starts with the set
\* holding the marks of its callers, and when it ends, by returning a
\* model, a forward reference or the entry of another thread, or by
\* raising, the set holds the marks of its callers again.
C23_ScopedInFlightMarking ==
    /\ [](\A th \in Threads :
            /\ ~Busy(th) => processing[th] = {}
            /\ processing[th] = MarkedBy(th, Len(stack[th])))
    /\ [][\A th \in Threads :
            /\ Len(stack'[th]) > Len(stack[th]) =>
                  /\ processing'[th] = processing[th]
                  /\ processing[th] = MarkedBy(th, Len(stack[th]))
            /\ Len(stack'[th]) < Len(stack[th]) =>
                  processing'[th] = MarkedBy(th, Len(stack[th]) - 1)]_vars

\* One thread's call has raised and left its set empty; the other thread's
\* build of B has its nested call for A back with a model, and only B is
\* marked.
C23_Witness ==
    \E t1, t2 \in Threads :
        /\ Completed(t1) /\ outcome[t1].path = "raised"
        /\ processing[t1] = {}
        /\ At(t2, "fields") /\ Len(stack[t2]) = 1
        /\ Top(t2).struct = "B" /\ IsModel(Top(t2).res)
        /\ processing[t2] = {"B"}

\* C24 (lock scope): the thread holding _REGISTRY_LOCK is at the re-check
\* or at the insert of its innermost call, and nowhere else: not in field
\* extraction, type mapping, model construction or a nested call; and every
\* thread with a call in progress that is not waiting for the lock can take
\* its next step, whatever the other threads are doing.
C24_LockOnlyAcrossRecheckAndInsert ==
    /\ lock \in Threads \cup {NoThread}
    /\ \A th \in Threads :
          /\ lock = th <=> (Busy(th) /\ Top(th).pc \in {"recheck", "insert"})
          /\ \A i \in DOMAIN stack[th] :
                i < Len(stack[th]) => stack[th][i].pc = "fields"
          /\ (Busy(th) /\ Top(th).pc # "lock") => ENABLED Step(th)

\* One thread holds the lock, about to insert, while the other thread is
\* in the middle of its own build, a nested call deep, and reads the
\* registry.
C24_Witness ==
    \E t1, t2 \in Threads :
        /\ t1 # t2
        /\ lock = t1 /\ At(t1, "insert")
        /\ At(t2, "start") /\ Len(stack[t2]) = 2
        /\ stack[t2][1].pc = "fields"
        /\ ENABLED Step(t2)

\* C25 (cache hit): the step of a thread that called msgspec_to_pydantic(S)
\* with S in the registry ends the call with the registered model, also
\* when S is in the thread's in-flight set; the registry, the lock, the
\* in-flight sets, the classes, the count of builds and the converter's
\* cache are what they were (nothing is extracted, converted or built).
C25_CacheHitPureRead ==
    [][\A th \in Threads :
          (At(th, "start") /\ registry[Top(th).struct] # None
              /\ stack'[th] # stack[th]) =>
              /\ stack'[th] = ReturnTo(stack[th], registry[Top(th).struct])
              /\ Len(stack[th]) = 1 =>
                    /\ outcome'[th].val = registry[Top(th).struct]
                    /\ outcome'[th].path = "hit"
              /\ UNCHANGED <<registry, lock, processing, heap, built,
                             inserted, nalloc, type_cache>>]_vars

\* The build of User in one thread has made its nested call for User after
\* another thread registered User: the call returned the registered model,
\* not the forward reference, and User is still in flight.
C25_Witness ==
    \E th \in Threads :
        /\ At(th, "fields") /\ Len(stack[th]) = 1
        /\ Top(th).struct = "U1" /\ Top(th).idx = 3
        /\ registry["U1"] # None
        /\ Top(th).res = registry["U1"]
        /\ "U1" \in processing[th]

-----------------------------------------------------------------------------
(* The Type Mapper: scalars, memoization, containers.                      *)

\* The natural type of each scalar descriptor.
NaturalType ==
    [IntType |-> "int", StrType |-> "str", FloatType |-> "float",
     BoolType |-> "bool", BytesType |-> "bytes",
     ByteArrayType |-> "bytearray", DateTimeType |-> "datetime",
     DateType |-> "date", TimeType |-> "time",
     TimeDeltaType |-> "timedelta", DecimalType |-> "Decimal",
     NoneType |-> "NoneType"]

\* C26 (scalar mapping): every call of the Type Mapper on a scalar
\* descriptor returns the natural type of the descriptor (Int -> int,
\* Str -> str, Float -> float, Bool -> bool, Bytes -> bytes, ByteArray ->
\* bytearray, DateTime -> datetime, Date -> date, Time -> time, Duration ->
\* timedelta, Decimal -> Decimal, None -> NoneType), the first call and
\* every later call, whatever was converted in between.
C26_ScalarMapping ==
    (conversion # NoCall /\ conversion.field_type.tag \in DOMAIN NaturalType)
        => conversion.result = Py(NaturalType[conversion.field_type.tag])

\* A later call for Duration, answered from the cache with timedelta, with
\* all twelve simple types cached.
C26_Witness ==
    /\ conversion # NoCall
    /\ conversion.field_type = TimeDeltaType
    /\ conversion.before["TimeDeltaType"] # NotCached
    /\ conversion.result = Py("timedelta")
    /\ \A n \in SimpleTypes : type_cache[n] # NotCached

\* C27 (transparent memoization): after any sequence of calls on the
\* shared converter, the result of a call is the result a converter with
\* an empty cache gives for the same descriptor; the cache holds entries
\* for scalar type names only, each the mapping of that scalar, so that no
\* List, Set, Dict, Tuple, Union, Struct, Enum or Annotated descriptor is
\* answered with the result of another.
C27_MemoizationTransparent ==
    /\ conversion # NoCall =>
          conversion.result =
            convert_type(conversion.field_type, conversion.res,
                         EmptyCache).val
    /\ \A n \in TypeNames :
          type_cache[n] # NotCached =>
              /\ [tag |-> n] \in ScalarInputs
              /\ type_cache[n] =
                    convert_type([tag |-> n], NoRes, EmptyCache).val

\* List(Str) was converted to list[str] by a converter that had the
\* results for Int and Str in its cache.
C27_Witness ==
    /\ conversion # NoCall
    /\ conversion.field_type = ListType(StrType)
    /\ conversion.before["StrType"] # NotCached
    /\ conversion.before["IntType"] # NotCached
    /\ conversion.result = Generic("list", <<Py("str")>>)

\* The mapping of a container from the mappings ms of its components, in
\* order: the first exception among them if one raises, and the generic
\* alias of origin with the arguments ms if none does.
OfMapped(origin, ms) ==
    LET raising == {i \in DOMAIN ms : IsRaised(ms[i])}
    IN IF raising = {} THEN Generic(origin, ms)
       ELSE ms[CHOOSE i \in raising : \A j \in raising : i <= j]

\* C28 (containers): List(item) maps to list[map(item)], Set(item) to
\* set[map(item)], Dict(key, value) to dict[map(key), map(value)] and
\* Tuple(items) to the tuple of map of each item, in order (a component
\* that raises makes the container raise the same); a List or Set without
\* item type maps to plain list or set, a Dict lacking key type or value
\* type to plain dict, a Tuple without item types to plain tuple, none of
\* them raising.
C28_ContainerMapping ==
    conversion # NoCall =>
        LET d == conversion.field_type
            r == conversion.result
            map(x) == convert_type(x, conversion.res, EmptyCache).val
        IN CASE d.tag = "ListType" ->
                  IF hasattr(d, "item_type")
                  THEN r = OfMapped("list", <<map(d.item_type)>>)
                  ELSE r = Py("list")
             [] d.tag = "SetType" ->
                  IF hasattr(d, "item_type")
                  THEN r = OfMapped("set", <<map(d.item_type)>>)
                  ELSE r = Py("set")
             [] d.tag = "DictType" ->
                  IF hasattr(d, "key_type") /\ hasattr(d, "value_type")
                  THEN r = OfMapped("dict",
                                    <<map(d.key_type), map(d.value_type)>>)
                  ELSE r = Py("dict")
             [] d.tag = "TupleType" ->
                  IF hasattr(d, "item_types")
                  THEN r = OfMapped("tuple",
                                    [i \in DOMAIN d.item_types |->
                                       map(d.item_types[i])])
                  ELSE r = Py("tuple")
             [] OTHER -> TRUE

\* Dict(Str, List(Int)) was converted to dict[str, list[int]].
C28_Witness ==
    /\ conversion # NoCall
    /\ conversion.field_type = DictType(StrType, ListType(IntType))
    /\ conversion.result =
          Generic("dict", <<Py("str"), Generic("list", <<Py("int")>>)>>)

-----------------------------------------------------------------------------
(* The generated model: properties and defaults.                           *)

\* What the nested calls made for the descriptor d can have returned: the
\* forward reference or the registered model of a struct type of d.
NestedAnswers(d) ==
    IF StructRefs(d) = {} THEN {NoRes}
    ELSE UNION {{PyStr(StructDef(r).name)} \cup ({registry[r]} \ {None}) :
                  r \in StructRefs(d)}

\* C29 (one property per field): the model registered for a struct type
\* has as many properties as the struct type has fields, the i-th property
\* has the declared name of the i-th field, no name occurs twice, and the
\* type of each property is the Type Mapper's result for the descriptor of
\* its field.
C29_OnePropertyPerField ==
    \A s \in Structs :
        registry[s] # None =>
            LET c == Deref(heap, registry[s])
                fields == StructDef(s).fields
            IN /\ Len(c.fields) = Len(fields)
               /\ \A i \in DOMAIN fields :
                     /\ c.fields[i].name = fields[i].name
                     /\ \A j \in DOMAIN fields :
                           c.fields[j].name = c.fields[i].name => j = i
                     /\ \E res \in NestedAnswers(fields[i].type) :
                           c.fields[i].python_type =
                             convert_type(fields[i].type, res,
                                          EmptyCache).val

\* The models of User and of B are registered: User has the properties
\* role: Any, full_name: str | None and friends: list["UserSchema"], in
\* this order, and B has a: ASchema | None with the registered model of A.
C29_Witness ==
    /\ registry["U1"] # None /\ registry["B"] # None /\ registry["A"] # None
    /\ LET u == Deref(heap, registry["U1"]).fields
           b == Deref(heap, registry["B"]).fields
       IN /\ <<u[1].name, u[2].name, u[3].name>> =
                <<"role", "full_name", "friends">>
          /\ u[1].python_type = PyAny
          /\ u[2].python_type =
                [t |-> "Union", args |-> <<Py("str"), PyNoneType>>]
          /\ u[3].python_type = Generic("list", <<PyStr("User")>>)
          /\ b[1].python_type =
                [t |-> "Union", args |-> <<registry["A"], PyNoneType>>]

\* The field has an explicit default; it has a default factory and no
\* explicit default.
HasDefault(field) == field.default # NODEFAULT
HasFactoryOnly(field) ==
    field.default = NODEFAULT /\ field.default_factory # NODEFAULT

\* C30 (default discipline): in every model class built, the property of a
\* field with an explicit default, None included, has that default; the
\* property of a field with a default factory and no default has the value
\* the factory returned; every other property is required; a property is
\* required if and only if its field has neither.  In every build the
\* extraction of a field calls the field's factory once if the field has a
\* factory and no default, and never otherwise.
C30_DefaultDiscipline ==
    /\ \A c \in heap : \A s \in Structs :
          StructDef(s).name = c.name =>
              \A i \in DOMAIN c.fields :
                  LET field == StructDef(s).fields[i]
                      p == c.fields[i]
                  IN /\ HasDefault(field) => p.default_value = field.default
                     /\ HasFactoryOnly(field) =>
                           p.default_value = field.default_factory.yields
                     /\ (p.default_value = Ellipsis) <=>
                           (~HasDefault(field) /\ ~HasFactoryOnly(field))
    /\ \A th \in Threads : \A k \in DOMAIN stack[th] :
          LET f == stack[th][k]
          IN \A i \in DOMAIN f.raw :
                f.raw[i].invoked =
                  IF HasFactoryOnly(StructDef(f.struct).fields[i])
                  THEN 1 ELSE 0

\* A build of User has created its class: role is required, full_name has
\* the default None, friends has the list its factory returned, and the
\* factory was called once, for friends only.
C30_Witness ==
    \E th \in Threads :
        /\ At(th, "attach") /\ Top(th).struct = "U1"
        /\ <<Top(th).raw[1].invoked, Top(th).raw[2].invoked,
             Top(th).raw[3].invoked>> = <<0, 0, 1>>
        /\ LET p == Deref(heap, Top(th).model).fields
           IN /\ p[1].default_value = Ellipsis
              /\ p[2].default_value = None
              /\ p[3].default_value = PyValue("[]")

-----------------------------------------------------------------------------
(* The registry: back-references, closure, lock.                           *)

\* C31 (back-reference): the __msgspec_struct__ of the model registered
\* for a struct type is that struct type, and the attribute was set on the
\* class before the step that put the class in the registry; also when
\* other threads build the same struct type at the same time.
C31_BackReference ==
    /\ [](\A s \in Structs :
            registry[s] # None =>
                /\ \E c \in heap : c.ref = registry[s]
                /\ Deref(heap, registry[s]).msgspec_struct = s)
    /\ [][\A s \in Structs :
            (registry[s] = None /\ registry'[s] # None) =>
                /\ \E c \in heap : c.ref = registry'[s]
                /\ Deref(heap, registry'[s]).msgspec_struct = s]_vars

\* The model of User is registered by one thread, with its back-reference,
\* while the other thread has built a class of its own for User and waits
\* for the lock.
C31_Witness ==
    \E t1, t2 \in Threads :
        /\ t1 # t2
        /\ registry["U1"] # None /\ registry["U1"].by = t1
        /\ Deref(heap, registry["U1"]).msgspec_struct = "U1"
        /\ At(t2, "lock") /\ Top(t2).struct = "U1"
        /\ Deref(heap, Top(t2).model).msgspec_struct = "U1"

\* C32 (top-level calls): a call made by a thread with an empty in-flight
\* set starts with nothing in flight, and when it is over it has returned
\* a model class or raised: never the forward reference.
C32_TopLevelNeverPlaceholder ==
    \A th \in Threads :
        /\ (Len(stack[th]) = 1 /\ Top(th).pc = "start")
              => processing[th] = {}
        /\ Completed(th) =>
              /\ outcome[th].path # "forward"
              /\ ~IsStr(outcome[th].val)
              /\ IsModel(outcome[th].val) \/ IsRaised(outcome[th].val)

\* A top-level call for User, whose nested call for User was answered
\* with the forward reference, has returned the model it inserted.
C32_Witness ==
    \E th \in Threads :
        /\ Completed(th) /\ outcome[th].struct = "U1"
        /\ outcome[th].path = "inserted" /\ IsModel(outcome[th].val)
        /\ Deref(heap, outcome[th].val).fields[3].python_type
              = Generic("list", <<PyStr("User")>>)

\* C33 as stated: a call for a struct type that refers to itself, in
\* whatever shape (list[S], S | None, ...), returns a model.
C33_SelfReferenceConverts ==
    \A th \in Threads :
        (Completed(th) /\ outcome[th].struct \in Refs(outcome[th].struct))
            => IsModel(outcome[th].val)

\* No call is in progress in any thread.
Quiescent == \A th \in Threads : ~Busy(th)

\* C34 as stated: when no call is in progress, every struct type a
\* registered model refers to, by a model or by a forward reference, is
\* in the registry too.
C34_ReferentialClosure ==
    Quiescent =>
        \A s \in Structs :
            registry[s] # None => \A r \in Refs(s) : registry[r] # None

\* C35 (no deadlock on the lock): a thread about to acquire the lock does
\* not hold it; while a thread holds the lock it makes no call; the lock is
\* free again as soon as the holder leaves the locked section, by the
\* early return as well as after the insert; and under fair scheduling a
\* thread waiting for the lock gets it, and every call comes to its end
\* (a waiting thread goes on only by taking the lock, and every waiting
\* thread does come to the end of its call).
C35_LockCannotDeadlock ==
    /\ [](\A th \in Threads :
            /\ At(th, "lock") => lock # th
            /\ lock = th => Busy(th))
    /\ [][\A th \in Threads :
            lock = th =>
                /\ Len(stack'[th]) <= Len(stack[th])
                /\ Len(stack'[th]) < Len(stack[th]) => lock' = NoThread]_vars
    /\ [][\A th \in Threads :
            (At(th, "lock") /\ stack'[th] # stack[th]) =>
                (lock = NoThread /\ lock' = th)]_vars
    /\ \A th \in Threads : At(th, "lock") ~> ~Busy(th)

\* One thread waits for the lock that the other thread holds.
C35_Witness ==
    \E t1, t2 \in Threads :
        /\ t1 # t2
        /\ At(t1, "lock") /\ lock = t2
        /\ At(t2, "recheck")
        /\ Top(t1).struct = Top(t2).struct

RECURSIVE ModelsIn(_)
\* The model classes a type annotation contains.
ModelsIn(v) ==
    IF IsModel(v) THEN {v}
    ELSE IF "args" \in DOMAIN v
    THEN UNION {ModelsIn(v.args[i]) : i \in DOMAIN v.args}
    ELSE {}

\* C36 (registered models refer to registered models): a model class that
\* occurs in the type of a property of a registered model is the
\* registry's entry of a struct type the field refers to, never a class
\* that lost the race for the insert, whatever the interleaving of the
\* threads.
C36_OnlyRegisteredModelsReferenced ==
    \A s \in Structs :
        registry[s] # None =>
            LET c == Deref(heap, registry[s])
            IN \A i \in DOMAIN c.fields :
                  \A mdl \in ModelsIn(c.fields[i].python_type) :
                      \E r \in StructRefs(StructDef(s).fields[i].type) :
                          registry[r] = mdl

\* Two threads each built a class for A and one lost the race; the
\* registered model of B refers to the registered model of A.
C36_Witness ==
    /\ built["A"] = 2 /\ inserted["A"] = 1
    /\ registry["A"] # None /\ registry["B"] # None
    /\ ModelsIn(Deref(heap, registry["B"]).fields[1].python_type)
          = {registry["A"]}

\* C37 (items of the envelope): in the envelope of a call with valid
\* arguments, the items are the empty list if total_results > 0 and
\* page > total_pages, and otherwise the very list the caller passed, also
\* one longer than page_size; so the items differ from the caller's only
\* on a page out of range.
C37_ItemsReplacedOnlyOutOfRange ==
    (Done("paginated_response") /\ ValidArguments /\ PaginatedEnvelope) =>
        LET c == pagination.result.content
            beyond == pagination.total_results > 0
                        /\ pagination.page > c.total_pages
        IN /\ beyond => c.items = PyList(<< >>)
           /\ ~beyond => c.items = pagination.items
           /\ pagination.result.body.items = c.items
           /\ c.items # pagination.items => beyond

\* Two items passed for page 2, of size 1, of an empty result set: they
\* are returned as passed.
C37_Witness ==
    /\ Done("paginated_response") /\ PaginatedEnvelope
    /\ pagination.items = PyList(<< PyValue("x"), PyValue("y") >>)
    /\ pagination.page_size = 1
    /\ pagination.result.content.items = pagination.items
    /\ pagination.total_results = 0 /\ pagination.page = 2

\* The result r is the error envelope: status code 500, status "error", no
\* data, and the message the text prefix followed by the exception.
IsErrorEnvelope(r, prefix) ==
    /\ ~IsRaised(r)
    /\ r.status_code = 500
    /\ r.content = ResponseModel(Str("error"), None,
                                 Format(prefix, Exc("TypeError")))
    /\ r.body = [status |-> Str("error"), data |-> None,
                 message |-> Format(prefix, Exc("TypeError"))]

\* The result r is ResponseSerializationError raised for the encoder's
\* EncodeError on data.
IsSerializationError(r, data) ==
    /\ IsRaised(r)
    /\ r.exc = ResponseSerializationError(data, Exc("EncodeError"))

AllBound(impl) == \A n \in EntryNames : core.bound[n] = impl

\* The extension module can be loaded and has every attribute imported.
NativeComplete ==
    core.speedups.t = "module" /\ core.speedups.attrs = EntryAttrs

\* C39 (implementation selection): _CYTHON_AVAILABLE is bound by the last
\* step of the import only; once the import is done, either the extension
\* provides every entry point, all four names are bound to it and
\* _CYTHON_AVAILABLE is True, or an import from the extension failed, all
\* four names are bound to the fallback and _CYTHON_AVAILABLE is False;
\* and no later import statement changes a binding or the flag.
C39_AllOrNothingSelection ==
    /\ [](core._CYTHON_AVAILABLE # "unbound" <=> core.pc = "done")
    /\ [](core.pc = "done" =>
            IF NativeComplete
            THEN AllBound("native") /\ core._CYTHON_AVAILABLE = "True"
            ELSE AllBound("fallback") /\ core._CYTHON_AVAILABLE = "False")
    /\ [][core.pc = "done" =>
            /\ core'.bound = core.bound
            /\ core'._CYTHON_AVAILABLE = core._CYTHON_AVAILABLE]_vars

\* An extension that has convert_msgspec_type_fast and
\* create_paginated_dict_fast but no create_response_dict_fast: two names
\* were bound to it before the import failed, and after a second import
\* statement all four are the fallback's.
C39_Witness ==
    /\ core.pc = "done" /\ core.imports = 2
    /\ core.speedups.t = "module"
    /\ core.speedups.attrs = {"convert_msgspec_type_fast",
                              "create_paginated_dict_fast"}
    /\ AllBound("fallback") /\ core._CYTHON_AVAILABLE = "False"

====
